---- MODULE Spec2Model ----
(***************************************************************************)
(* A model of the algorithm-based fault tolerance (ABFT) kernels of the    *)
(* repository: the checksum-protected GEMM, SYRK, TRSM and POTRF and the   *)
(* detect-and-correct kernels.                                             *)
(*                                                                         *)
(* Matrices live in column-major linear memory, 0-based, element (i, j) at *)
(* offset i + j*ld, as in the source.  Arithmetic is exact: the values are *)
(* integers; in the detect-and-correct model they count tenths, so that    *)
(* the source's tolerance 0.1 is the integer Tol.                          *)
(***************************************************************************)
EXTENDS Integers, Sequences, FiniteSets, TLC

VARIABLES
    ec,      \* detect-and-correct kernels and the recomputation feeding them
    potrf,   \* one call of dpotrfFT
    trsm,    \* one call of dtrsmFT
    syrk,    \* one call of dsyrkFT
    gemm,    \* one call of abft_dgemm and its two streams
    posv,    \* one call of magma_dposv_gpu
    zpotrf,  \* one call of magma_zpotrf_batched
    zgesv,   \* one call of magma_zgesv
    spotrf_m, \* one call of magma_spotrf_m
    eig      \* one call of magma_smove_eig

vars == <<ec, potrf, trsm, syrk, gemm, posv, zpotrf, zgesv, spotrf_m, eig>>

(***************************************************************************)
(* Bounds of the model.                                                    *)
(***************************************************************************)
\* order of the matrix C checked by detectAndCorrectForSyrk (threads = N)
N == 4
\* faults strike the leading FaultCols columns (the threads are identical)
FaultCols == 2
\* faults injected between two verifications
MaxFaults == 2
\* recompute/detect passes over the same data
MaxPasses == 2
\* seeds of the family of input matrices
MaxSeed == 1
\* order of the matrix factorized by dpotrfFT
PotrfN == 3
\* the diagonal of the factor L is drawn from 1 .. MaxDiag
MaxDiag == 2
\* order of the triangular matrix A of dtrsmFT (the block size of B)
TrsmN == 2
\* number of row blocks of B in dtrsmFT (m = TrsmN * TrsmBlocks)
TrsmBlocks == 2
\* rows and columns of the matrix A of dsyrkFT
SyrkN == 2
SyrkM == 2
\* elements of A corrupted before a call of dsyrkFT
SyrkMaxFaults == 1
\* calls of dsyrkFT in a row on the same streams
SyrkMaxCalls == 2
\* magma_dposv_gpu: n, nrhs, ldda and lddb range over -1 .. PosvMax
PosvMax == 2
\* magma_zpotrf_batched: n and ldda range up to ZpotrfMaxN
ZpotrfMaxN == 3
\* magma_zpotrf_batched: batchCount
ZpotrfBatch == 2
\* the block size nb of abft_dgemm
GemmNb == 2
\* abft_dgemm: m = GemmNb * GemmBlocks, n = GemmNb, k = GemmNb
GemmBlocks == 2

(***************************************************************************)
(* Arithmetic helpers.                                                     *)
(***************************************************************************)
Abs(x) == IF x < 0 THEN -x ELSE x

\* C's round() of the quotient a / b of two non-negative doubles (b > 0):
\* to nearest, halves away from zero.
Round(a, b) == (2 * a + b) \div (2 * b)

\* the memory reachable from pointer p + off
Offset(p, off) == [k \in 0 .. (Cardinality(DOMAIN p) - 1 - off) |-> p[k + off]]

\* the weight vectors: v1 all ones, v2 = 1, 2, ..., n  (t = 0 or 1, i 0-based)
Weight(t, i) == IF t = 0 THEN 1 ELSE i + 1

RECURSIVE SumTo(_, _)
\* f[0] + ... + f[k-1]
SumTo(f, k) == IF k = 0 THEN 0 ELSE f[k - 1] + SumTo(f, k - 1)

(***************************************************************************)
(* The detect-and-correct kernel of dsyrkFT (v2).                          *)
(***************************************************************************)
\* the tolerance 0.1 of the kernel, in tenths
Tol == 1

FlaggedAtTol(diff) == diff >= Tol

\* the test "diff > 0.1" of a thread
Flagged(diff) == diff > Tol

LocateRowNoShift(diff2, diff) == Round(diff2, diff)

\* the row a thread derives from the two discrepancies
LocateRow(diff2, diff) == Round(diff2, diff) - 1

SyrkThreadSignFlipped(ldc, chksumC1, incC1, chksumC2, incC2, chkC1, incC1_2, chkC2, incC2_2, col) ==
    LET diff == Abs(chkC1[col * incC1_2] - chksumC1[col * incC1]) IN
    IF Flagged(diff)
    THEN LET diff2 == Abs(chkC2[col * incC2_2] - chksumC2[col * incC2])
             row   == LocateRow(diff2, diff)
         IN  {[col  |-> col, row |-> row, diff |-> diff, diff2 |-> diff2,
               addr |-> row + col * ldc,
               add  |-> chkC1[col * incC1_2] - chksumC1[col * incC1]]}
    ELSE {}

\* a thread that adds half of the discrepancy
SyrkThreadHalf(ldc, chksumC1, incC1, chksumC2, incC2, chkC1, incC1_2, chkC2, incC2_2, col) ==
    LET diff == Abs(chkC1[col * incC1_2] - chksumC1[col * incC1]) IN
    IF Flagged(diff)
    THEN LET diff2 == Abs(chkC2[col * incC2_2] - chksumC2[col * incC2])
             row   == LocateRow(diff2, diff)
         IN  {[col  |-> col, row |-> row, diff |-> diff, diff2 |-> diff2,
               addr |-> row + col * ldc,
               add  |-> (chksumC1[col * incC1] - chkC1[col * incC1_2]) \div 2]}
    ELSE {}

\* One thread of detectAndCorrectForSyrk (col = threadIdx.x): the write it
\* does, if any: C[row + col*ldc] += add.
SyrkThread(ldc, chksumC1, incC1, chksumC2, incC2, chkC1, incC1_2, chkC2, incC2_2, col) ==
    LET diff == Abs(chkC1[col * incC1_2] - chksumC1[col * incC1]) IN
    IF Flagged(diff)
    THEN LET diff2 == Abs(chkC2[col * incC2_2] - chksumC2[col * incC2])
             row   == LocateRow(diff2, diff)
         IN  {[col  |-> col, row |-> row, diff |-> diff, diff2 |-> diff2,
               addr |-> row + col * ldc,
               add  |-> chksumC1[col * incC1] - chkC1[col * incC1_2]]}
    ELSE {}

DetectAndCorrectOneThread(ldc, n, chksumC1, incC1, chksumC2, incC2, chkC1, incC1_2, chkC2, incC2_2) ==
    SyrkThread(ldc, chksumC1, incC1, chksumC2, incC2,
               chkC1, incC1_2, chkC2, incC2_2, 0)

\* The writes of every thread of a launch detectAndCorrectForSyrk<<<1, n>>>.
DetectAndCorrectForSyrk(ldc, n, chksumC1, incC1, chksumC2, incC2, chkC1, incC1_2, chkC2, incC2_2) ==
    UNION {SyrkThread(ldc, chksumC1, incC1, chksumC2, incC2,
                      chkC1, incC1_2, chkC2, incC2_2, col) : col \in 0 .. n - 1}

RECURSIVE AddAll(_)
AddAll(ws) == IF ws = {} THEN 0
              ELSE LET w == CHOOSE w \in ws : TRUE IN w.add + AddAll(ws \ {w})

\* The memories a launch can leave.  Each thread does one read-modify-write
\* "+=".  Threads whose addresses differ do not interfere.  Threads on the
\* same address race: all their additions land, or only one does.  A write
\* outside the buffer leaves the buffer as it is (the caller records it).
ApplyWrites(mem, writes) ==
    LET size   == Cardinality(DOMAIN mem)
        inside == {w \in writes : w.addr >= 0 /\ w.addr < size}
        at(a)  == {w \in inside : w.addr = a}
        lands  == {s \in SUBSET inside :
                     \A a \in {w.addr : w \in inside} :
                        LET here == s \cap at(a) IN
                        \/ here = at(a)
                        \/ Cardinality(at(a)) > 1 /\ Cardinality(here) = 1}
    IN  {[a \in DOMAIN mem |-> mem[a] + AddAll({w \in s : w.addr = a})] :
            s \in lands}

\* The recomputation of dsyrkFT (v2):
\* cublasDgemm(OP_T, OP_N, 2, n, n, 1, vd, vd_ld, C, ldc, 0, chk, chk_ld),
\* chk[t + j*chk_ld] = sum_i vd[i, t] * C[i + j*ldc], vd the two weight vectors.
RecalcChk(C, ldc, n, chk_ld) ==
    [k \in 0 .. chk_ld * n - 1 |->
        LET t == k % chk_ld
            j == k \div chk_ld
        IN  IF t < 2
            THEN SumTo([i \in 0 .. n - 1 |-> Weight(t, i) * C[i + j * ldc]], n)
            ELSE 0]

(***************************************************************************)
(* The inputs: a family of matrices, entries in tenths.                    *)
(***************************************************************************)
\* seed 0 is the identity-like matrix (1.0 on the diagonal)
Entry(s, i, j) ==
    IF s = 0 THEN (IF i = j THEN 10 ELSE 0)
    ELSE 10 * (((s * (i + 1) + (j + 1) * (i + 2)) % 5) - 2)
         + (IF i = j THEN 10 ELSE 0)

\* an m x n matrix of the family in memory with leading dimension ld
MatrixMem(s, m, n, ld) ==
    [a \in 0 .. ld * n - 1 |->
        IF a % ld < m THEN Entry(s, a % ld, a \div ld) ELSE 0]

\* the additive perturbations of a fault, in tenths: 0.1, 5.0, -5.0 and 10.0
FaultValues == {-50, 1, 50, 100}

\* C and its stored checksum checksumC = Encode(C), before any fault
EcInit(s) ==
    LET mem == MatrixMem(s, N, N, N) IN
    [n         |-> N,
     ldc       |-> N,
     C         |-> mem,
     orig      |-> mem,
     checksumC |-> RecalcChk(mem, N, N, 2),
     chk       |-> [k \in 0 .. 2 * N - 1 |-> 0],
     faults    |-> {},
     before    |-> mem,
     writes    |-> {},
     oob       |-> FALSE,
     pass      |-> 0,
     pc        |-> "clean"]

\* A fault: C[r, c] += e, the stored checksum not updated.
EcInject(r, c, e) ==
    /\ ec.pc = "clean"
    /\ Cardinality(ec.faults) < MaxFaults
    /\ \A f \in ec.faults : f.row # r \/ f.col # c
    /\ ec' = [ec EXCEPT !.C[r + c * ec.ldc] = @ + e,
                        !.faults = @ \cup {[row |-> r, col |-> c, e |-> e]}]

\* The caller recomputes both checksums from the data as it is now.
EcRecalc ==
    /\ ec.pc \in {"clean", "checked"}
    /\ ec.pass < MaxPasses
    /\ ec' = [ec EXCEPT !.chk = RecalcChk(ec.C, ec.ldc, ec.n, 2),
                        !.pc  = "recalculated"]

\* the launch with the two stored checksums exchanged
EcWritesSwapped ==
    DetectAndCorrectForSyrk(ec.ldc, ec.n,
                            Offset(ec.checksumC, 1), 2, Offset(ec.checksumC, 0), 2,
                            Offset(ec.chk, 0), 2, Offset(ec.chk, 1), 2)

\* the writes of the launch on the state as it is
EcWrites ==
    DetectAndCorrectForSyrk(ec.ldc, ec.n,
                            Offset(ec.checksumC, 0), 2, Offset(ec.checksumC, 1), 2,
                            Offset(ec.chk, 0), 2, Offset(ec.chk, 1), 2)

\* The launch of the kernel.
EcDetectAndCorrect ==
    /\ ec.pc = "recalculated"
    /\ \E mem \in ApplyWrites(ec.C, EcWrites) :
          ec' = [ec EXCEPT
                    !.before = ec.C,
                    !.C      = mem,
                    !.writes = EcWrites,
                    !.oob    = @ \/ \E w \in EcWrites :
                                      w.addr < 0 \/ w.addr >= ec.ldc * ec.n,
                    !.pass   = @ + 1,
                    !.pc     = "checked"]

InitCorrect ==
    /\ ec \in {EcInit(s) : s \in 0 .. MaxSeed}
    /\ potrf = [pc |-> "idle"]
    /\ trsm = [pc |-> "idle"]
    /\ syrk = [pc |-> "idle"]
    /\ gemm = [pc |-> "idle"]
    /\ posv = [pc |-> "idle"]
    /\ zpotrf = [pc |-> "idle"]
    /\ zgesv = [pc |-> "idle"]
    /\ spotrf_m = [pc |-> "idle"]
    /\ eig = [pc |-> "idle"]

NextCorrect ==
    \/ /\ \E r \in 0 .. ec.n - 1, c \in 0 .. FaultCols - 1, e \in FaultValues :
             EcInject(r, c, e)
       /\ UNCHANGED <<potrf, trsm, syrk, gemm, posv, zpotrf, zgesv, spotrf_m, eig>>
    \/ /\ EcRecalc
       /\ UNCHANGED <<potrf, trsm, syrk, gemm, posv, zpotrf, zgesv, spotrf_m, eig>>
    \/ /\ EcDetectAndCorrect
       /\ UNCHANGED <<potrf, trsm, syrk, gemm, posv, zpotrf, zgesv, spotrf_m, eig>>

SpecCorrect == InitCorrect /\ [][NextCorrect]_vars

(***************************************************************************)
(* Claims about the detect-and-correct kernel (under SpecCorrect).         *)
(***************************************************************************)
\* the columns whose first checksum disagrees beyond the tolerance
FlaggedCols ==
    {c \in 0 .. ec.n - 1 : Abs(ec.chk[2 * c] - ec.checksumC[2 * c]) > Tol}

\* every faulted column holds one fault, and it is above the tolerance
SingleFaultPerColumn ==
    /\ \A f \in ec.faults : Abs(f.e) > Tol
    /\ \A f, g \in ec.faults : f.col = g.col => f = g

\* C3: after a single perturbation e, |e| above the tolerance, at (r, c), the
\* kernel writes in column c only, at the row r = round(diff2/diff) - 1, and
\* the data equals the original matrix again (and stays so on later passes).
C3_SingleErrorCorrected ==
    (ec.pc = "checked" /\ Cardinality(ec.faults) = 1 /\ SingleFaultPerColumn)
    => /\ ec.C = ec.orig
       /\ ec.pass = 1 =>
            \E f \in ec.faults :
               /\ {w.col : w \in ec.writes} = {f.col}
               /\ \A w \in ec.writes :
                     /\ w.row = f.row
                     /\ w.addr = f.row + f.col * ec.ldc
                     /\ w.diff2 = (f.row + 1) * w.diff

C3_Witness ==
    /\ ec.pc = "checked" /\ ec.pass = 1
    /\ \E f \in ec.faults : ec.faults = {f} /\ f.e = -50 /\ f.row = ec.n - 1
    /\ ec.before # ec.orig
    /\ ec.C = ec.orig

\* the scenario of C4: A[2, 1] += 5.0 and nothing else
C4_Scenario == ec.faults = {[row |-> 2, col |-> 1, e |-> 50]}

\* C4 as stated: stored minus recomputed is 5.0 and 15.0 in column 1, the row
\* is 2 and the correction restores the matrix.
C4_AsStated ==
    C4_Scenario =>
      /\ (ec.pc = "recalculated" /\ ec.pass = 0) =>
            /\ ec.checksumC[0 + 1 * 2] - ec.chk[0 + 1 * 2] = 50
            /\ ec.checksumC[1 + 1 * 2] - ec.chk[1 + 1 * 2] = 150
      /\ ec.pc = "checked" => ec.C = ec.orig

\* C4, amended: the discrepancies 5.0 and 15.0 are the absolute differences
\* (recomputed minus stored; stored minus recomputed is -5.0 and -15.0); the
\* kernel flags column 1 only, finds row round(15/5) - 1 = 2, adds
\* stored - recomputed = -5.0 to A[2, 1] and the matrix is the original again.
C4_ScenarioCorrected ==
    C4_Scenario =>
      /\ (ec.pc = "recalculated" /\ ec.pass = 0) =>
            /\ ec.chk[0 + 1 * 2] - ec.checksumC[0 + 1 * 2] = 50
            /\ ec.chk[1 + 1 * 2] - ec.checksumC[1 + 1 * 2] = 150
            /\ ec.C[2 + 1 * ec.ldc] = ec.orig[2 + 1 * ec.ldc] + 50
      /\ (ec.pc = "checked" /\ ec.pass = 1) =>
            /\ ec.writes = {[col |-> 1, row |-> 2, diff |-> 50, diff2 |-> 150,
                             addr |-> 2 + 1 * ec.ldc, add |-> -50]}
            /\ Round(150, 50) - 1 = 2
      /\ ec.pc = "checked" => ec.C = ec.orig

C4_Witness ==
    /\ C4_Scenario
    /\ ec.n = 4
    /\ ec.orig = MatrixMem(0, 4, 4, 4)
    /\ ec.pc = "checked" /\ ec.pass = 1
    /\ ec.before[2 + 1 * ec.ldc] = 50
    /\ ec.C[2 + 1 * ec.ldc] = 0

Discrepancy(t, c) == Abs(ec.chk[2 * c + t] - ec.checksumC[2 * c + t])

C15_Idempotent ==
    (Cardinality(ec.faults) = 1 /\ SingleFaultPerColumn /\ ec.pass >= 1)
    => /\ ec.pc = "recalculated" => ec.chk = ec.checksumC /\ FlaggedCols = {}
       /\ (ec.pc = "checked" /\ ec.pass >= 2) => ec.writes = {} /\ ec.C = ec.before

C15_Witness ==
    /\ Cardinality(ec.faults) = 1 /\ SingleFaultPerColumn
    /\ ec.pc = "checked" /\ ec.pass = 2
    /\ ec.C = ec.orig /\ ec.before = ec.orig

\* C19: a thread whose first discrepancy is at most the tolerance (zero
\* included) writes nothing, whatever its second discrepancy, and does not
\* evaluate diff2 / diff (a division by zero in the model would stop the
\* check); with no column above the tolerance the data is not changed.
C19_GuardOnFirstDiscrepancy ==
    (ec.pc = "checked")
    => /\ \A c \in 0 .. ec.n - 1 :
             Discrepancy(0, c) <= Tol => \A w \in ec.writes : w.col # c
       /\ FlaggedCols = {} => ec.C = ec.before

C19_Witness ==
    /\ ec.pc = "checked" /\ ec.pass = 1
    /\ \E c \in 0 .. ec.n - 1 :
          /\ Discrepancy(0, c) = 0
          /\ Discrepancy(1, c) > Tol
          /\ \E f \in ec.faults : f.col = c
    /\ ec.writes = {}

\* C20: a column is corrected only if its discrepancy exceeds the tolerance
\* on both checksums; a column above the tolerance on one checksum only is
\* not written and its thread writes nothing.
C20_AsStated ==
    (ec.pc = "checked" /\ ec.pass = 1)
    => \A c \in 0 .. ec.n - 1 :
          (Discrepancy(0, c) > Tol) # (Discrepancy(1, c) > Tol)
          => /\ \A w \in ec.writes : w.col # c
             /\ \A r \in 0 .. ec.n - 1 : ec.C[r + c * ec.ldc] = ec.before[r + c * ec.ldc]

(***************************************************************************)
(* dpotrfFT: Cholesky factorization on the host with checksum update.      *)
(***************************************************************************)
\* the entries below the diagonal of the factors the inputs are built from
OffDiag == {-1, 2}

\* whether the double division a / b is exact over the integers
Divides(b, a) == b # 0 /\ a % Abs(b) = 0

\* a / b; exact on every state the model reaches (see potrf.exact)
Quot(a, b) == IF b = 0 THEN 0 ELSE IF b < 0 THEN (-a) \div (-b) ELSE a \div b

\* sqrt(x) of a positive x; the model's inputs make x a perfect square
ISqrt(x) == CHOOSE r \in 0 .. x : r * r <= x /\ (r + 1) * (r + 1) > x

\* get(matrix, ld, n, i, j)
get(matrix, ld, n, i, j) == matrix[j * ld + i]

\* the j-th step of the unblocked factorization of the lower triangle
\* (LAPACK dpotf2, 'L'): the pivot, then the column below it
Potf2Column(mem, n, ld, j) ==
    LET ajj == mem[j + j * ld] - SumTo([k \in 0 .. j - 1 |-> mem[j + k * ld] * mem[j + k * ld]], j)
        d   == ISqrt(ajj)
        below(i) == mem[i + j * ld] - SumTo([k \in 0 .. j - 1 |-> mem[i + k * ld] * mem[j + k * ld]], j)
    IN  IF ajj <= 0
        THEN [A |-> [mem EXCEPT ![j + j * ld] = ajj], ok |-> FALSE]
        ELSE [A |-> [a \in DOMAIN mem |->
                        IF a = j + j * ld THEN d
                        ELSE IF a \div ld = j /\ a % ld > j /\ a % ld < n
                             THEN Quot(below(a % ld), d)
                             ELSE mem[a]],
              ok |-> TRUE]

RECURSIVE Potf2(_, _, _, _, _)
\* columns j, j+1, ..., last-1 of the factorization; info as LAPACK sets it
Potf2(mem, n, ld, j, last) ==
    IF j >= last THEN [A |-> mem, info |-> 0, cols |-> j]
    ELSE LET c == Potf2Column(mem, n, ld, j) IN
         IF c.ok THEN Potf2(c.A, n, ld, j + 1, last)
         ELSE [A |-> c.A, info |-> j + 1, cols |-> j]

lapackf77_dpotrfShort(uplo, n, A, lda) == Potf2(A, n, lda, 0, n - 1)

\* lapackf77_dpotrf(&uplo, &n, A, &lda, info), uplo = 'L'
lapackf77_dpotrf(uplo, n, A, lda) == Potf2(A, n, lda, 0, n)

\* blasf77_dtrmv('L', 'T', 'N', n, A, lda, x, 1):  x := A^T x, A lower triangular
blasf77_dtrmv(n, A, lda, x) ==
    [j \in 0 .. n - 1 |->
        SumTo([k \in 0 .. n - 1 - j |-> A[(j + k) + j * lda] * x[j + k]], n - j)]

\* blasf77_daxpy(m, alpha, x, incx, y, incy) on the memory y points into:
\* y[k*incy] += alpha * x[k*incx], k < m
blasf77_daxpy(m, alpha, x, incx, y, incy) ==
    [a \in DOMAIN y |->
        IF a % incy = 0 /\ a \div incy < m
        THEN y[a] + alpha * x[(a \div incy) * incx]
        ELSE y[a]]

\* the memory mem with the part from offset off on replaced by part
Store(mem, off, part) ==
    [a \in DOMAIN mem |-> IF a >= off THEN part[a - off] ELSE mem[a]]

UpdateChksumNoDivide(chksum, chksum_ld, A, lda, n, i, t) ==
    LET m     == n - i - 1
        alpha == (-1) * chksum[i * chksum_ld + t]
    IN  IF m > 0
        THEN Store(chksum, t + (i + 1) * chksum_ld,
                   blasf77_daxpy(m, alpha, Offset(A, i * lda + i + 1), 1,
                                 Offset(chksum, t + (i + 1) * chksum_ld), chksum_ld))
        ELSE chksum

\* one iteration of an update loop of dpotrfFT, on checksum row t:
\*   chksum[i] = chksum[i] / get(A, n, n, i, i);
\*   daxpy(n-i-1, -chksum[i], A + i*lda + i+1, 1, chksum + (i+1)*ld, ld)
UpdateChksum(chksum, chksum_ld, A, lda, n, i, t) ==
    LET divided == [chksum EXCEPT ![i * chksum_ld + t] = Quot(@, get(A, n, n, i, i))]
        m       == n - i - 1
        alpha   == (-1) * divided[i * chksum_ld + t]
    IN  IF m > 0
        THEN Store(divided, t + (i + 1) * chksum_ld,
                   blasf77_daxpy(m, alpha, Offset(A, i * lda + i + 1), 1,
                                 Offset(divided, t + (i + 1) * chksum_ld), chksum_ld))
        ELSE divided

RECURSIVE HostCorrect(_, _, _, _, _, _, _, _)
\* ErrorDetectAndCorrectHost: column by column, the test and the write of the
\* detect-and-correct kernel (values here are units, the tolerance is tenths)
HostCorrect(A, lda, n, chksum, chksum_ld, chk1, chk2, j) ==
    IF j = n THEN A
    ELSE LET diff  == Abs(chk1[j] - chksum[j * chksum_ld])
             diff2 == Abs(chk2[j] - chksum[j * chksum_ld + 1])
             addr  == LocateRow(diff2, diff) + j * lda
             next  == IF Flagged(10 * diff) /\ addr \in DOMAIN A
                      THEN [A EXCEPT ![addr] = @ + chksum[j * chksum_ld] - chk1[j]]
                      ELSE A
         IN  HostCorrect(next, lda, n, chksum, chksum_ld, chk1, chk2, j + 1)

ErrorDetectAndCorrectHost(A, lda, n, chksum, chksum_ld, chk1, chk2) ==
    HostCorrect(A, lda, n, chksum, chksum_ld, chk1, chk2, 0)

\* the lower-triangular factors the inputs are built from, as n x n memory
Factors(n) ==
    {[a \in 0 .. n * n - 1 |->
         IF a % n < a \div n THEN 0
         ELSE IF a % n = a \div n THEN d[a % n] ELSE o[a]] :
        d \in [0 .. n - 1 -> 1 .. MaxDiag],
        o \in [{a \in 0 .. n * n - 1 : a % n > a \div n} -> OffDiag]}

\* L * L^T as n x n memory
Gram(L, n) ==
    [a \in 0 .. n * n - 1 |->
        SumTo([k \in 0 .. n - 1 |-> L[(a % n) + k * n] * L[(a \div n) + k * n]], n)]

\* Encode: both column checksums of the n x n matrix in mem (ld 2)
Encode(mem, ld, n) ==
    [k \in 0 .. 2 * n - 1 |->
        SumTo([i \in 0 .. n - 1 |-> Weight(k % 2, i) * mem[i + (k \div 2) * ld]], n)]

PotrfInit(L, ft) ==
    LET n == PotrfN IN
    [n |-> n, lda |-> n, FT |-> ft,
     A |-> Gram(L, n), L |-> L,
     chksum |-> Encode(Gram(L, n), n, n), chksum_ld |-> 2,
     chksum0 |-> Encode(Gram(L, n), n, n),
     chk1 |-> <<>>, chk2 |-> <<>>,
     info |-> 0, cols |-> 0, i |-> 0,
     upd |-> <<>>,
     live |-> {}, exact |-> TRUE,
     pc |-> "factor"]

\* magma_set_lapack_numthreads(1); lapackf77_dpotrf(&uplo, &n, A, &n, info)
PotrfFactor ==
    /\ potrf.pc = "factor"
    /\ LET r == lapackf77_dpotrf("L", potrf.n, potrf.A, potrf.n) IN
       potrf' = [potrf EXCEPT !.A = r.A, !.info = r.info, !.cols = r.cols,
                              !.pc = IF potrf.FT THEN "recalc" ELSE "done"]

\* chk1, chk2 = new double[n], set to the weights, then the two dtrmv
PotrfRecalc ==
    /\ potrf.pc = "recalc"
    /\ potrf' = [potrf EXCEPT
          !.live = @ \cup {"chk1", "chk2"},
          !.chk1 = blasf77_dtrmv(potrf.n, potrf.A, potrf.lda,
                                 [i \in 0 .. potrf.n - 1 |-> Weight(0, i)]),
          !.chk2 = blasf77_dtrmv(potrf.n, potrf.A, potrf.lda,
                                 [i \in 0 .. potrf.n - 1 |-> Weight(1, i)]),
          !.i = 0,
          !.pc = "update1"]

\* one iteration of the loop over checksum row t (t = 0: first loop)
PotrfUpdate(t) ==
    /\ potrf.pc = (IF t = 0 THEN "update1" ELSE "update2")
    /\ potrf.i < potrf.n
    /\ potrf' = [potrf EXCEPT
          !.chksum = UpdateChksum(potrf.chksum, potrf.chksum_ld, potrf.A,
                                  potrf.lda, potrf.n, potrf.i, t),
          !.exact = @ /\ Divides(get(potrf.A, potrf.n, potrf.n, potrf.i, potrf.i),
                                 potrf.chksum[potrf.i * potrf.chksum_ld + t]),
          !.upd = Append(@, [t |-> t, col |-> potrf.i, cols |-> potrf.cols]),
          !.i = @ + 1]

\* the end of a loop: i = n
PotrfLoopEnd ==
    /\ potrf.pc \in {"update1", "update2"}
    /\ potrf.i = potrf.n
    /\ potrf' = [potrf EXCEPT !.i = 0,
                              !.pc = IF potrf.pc = "update1" THEN "update2"
                                     ELSE "detect"]

\* ErrorDetectAndCorrectHost(A, lda, n, n, n, chksum, chksum_ld, chk1, 1, chk2, 1)
\* and the return
PotrfDetect ==
    /\ potrf.pc = "detect"
    /\ potrf' = [potrf EXCEPT
          !.A = ErrorDetectAndCorrectHost(potrf.A, potrf.lda, potrf.n, potrf.chksum,
                                          potrf.chksum_ld, potrf.chk1, potrf.chk2),
          !.pc = "done"]

InitPotrf ==
    /\ potrf \in {PotrfInit(L, ft) : L \in Factors(PotrfN), ft \in BOOLEAN}
    /\ ec = [pc |-> "idle"]
    /\ trsm = [pc |-> "idle"]
    /\ syrk = [pc |-> "idle"]
    /\ gemm = [pc |-> "idle"]
    /\ posv = [pc |-> "idle"]
    /\ zpotrf = [pc |-> "idle"]
    /\ zgesv = [pc |-> "idle"]
    /\ spotrf_m = [pc |-> "idle"]
    /\ eig = [pc |-> "idle"]

NextPotrf ==
    \/ /\ PotrfFactor
       /\ UNCHANGED <<ec, trsm, syrk, gemm, posv, zpotrf, zgesv, spotrf_m, eig>>
    \/ /\ PotrfRecalc
       /\ UNCHANGED <<ec, trsm, syrk, gemm, posv, zpotrf, zgesv, spotrf_m, eig>>
    \/ /\ \E t \in {0, 1} : PotrfUpdate(t)
       /\ UNCHANGED <<ec, trsm, syrk, gemm, posv, zpotrf, zgesv, spotrf_m, eig>>
    \/ /\ PotrfLoopEnd
       /\ UNCHANGED <<ec, trsm, syrk, gemm, posv, zpotrf, zgesv, spotrf_m, eig>>
    \/ /\ PotrfDetect
       /\ UNCHANGED <<ec, trsm, syrk, gemm, posv, zpotrf, zgesv, spotrf_m, eig>>

SpecPotrf == InitPotrf /\ [][NextPotrf]_vars

\* every division the model performed was exact
PotrfExact == potrf.exact

(***************************************************************************)
(* Claims about dpotrfFT (under SpecPotrf).                                *)
(***************************************************************************)
\* v^T L for the weight vector t, straight from the factor the input was
\* built from
ChecksumOfFactor(t, j) ==
    SumTo([i \in 0 .. potrf.n - 1 |-> Weight(t, i) * potrf.L[i + j * potrf.n]], potrf.n)

\* C8: FT = true, lda = n, chksum = Encode(L L^T) on entry: after the two
\* update loops row 0 of chksum is v1^T L and row 1 is v2^T L, the values
\* chk1 and chk2 recomputed from the factor.
C8_ChecksumOfFactor ==
    (potrf.pc \in {"detect", "done"} /\ potrf.FT /\ potrf.lda = potrf.n)
    => \A j \in 0 .. potrf.n - 1 :
          /\ potrf.chksum[0 + j * potrf.chksum_ld] = ChecksumOfFactor(0, j)
          /\ potrf.chksum[1 + j * potrf.chksum_ld] = ChecksumOfFactor(1, j)
          /\ potrf.chksum[0 + j * potrf.chksum_ld] = potrf.chk1[j]
          /\ potrf.chksum[1 + j * potrf.chksum_ld] = potrf.chk2[j]

C8_Witness ==
    /\ potrf.pc = "done" /\ potrf.FT /\ potrf.info = 0
    /\ Len(potrf.upd) = 2 * potrf.n
    /\ \A a \in DOMAIN potrf.L : (a % potrf.n = a \div potrf.n) => potrf.L[a] = 2
    /\ potrf.L[1] = -1
    /\ potrf.chksum # Encode(Gram(potrf.L, potrf.n), potrf.n, potrf.n)
    /\ potrf.chksum[1 + 0 * potrf.chksum_ld] = ChecksumOfFactor(1, 0)

\* C9 as stated: the update of column k is done when column k of L has been
\* computed and column k+1 has not.
C9_AsStated ==
    \A u \in DOMAIN potrf.upd : potrf.upd[u].cols = potrf.upd[u].col + 1

\* C9, amended: every checksum update is done after the call of dpotrf has
\* returned, that is after every column of L that is computed at all (all n
\* when info = 0); no column of L is computed between or after the updates.
\* The columns are updated in order, first all of checksum row 0, then all
\* of checksum row 1.
C9_UpdatesAfterFactorization ==
    /\ \A u \in DOMAIN potrf.upd :
          /\ potrf.upd[u].cols = potrf.cols
          /\ potrf.info = 0 => potrf.upd[u].cols = potrf.n
          /\ potrf.upd[u].t = (IF u <= potrf.n THEN 0 ELSE 1)
          /\ potrf.upd[u].col = (u - 1) % potrf.n
    /\ potrf.pc \in {"detect", "done"} /\ potrf.FT => Len(potrf.upd) = 2 * potrf.n

C9_Witness ==
    /\ potrf.pc = "update1" /\ potrf.i = 1
    /\ potrf.upd = <<[t |-> 0, col |-> 0, cols |-> potrf.n]>>
    /\ potrf.info = 0
    /\ potrf.n >= 3

\* C16: dpotrfFT allocates and frees nothing: when it returns, no buffer it
\* allocated is live (the heap is as at entry).
C16_AsStated == potrf.pc = "done" => potrf.live = {}

(***************************************************************************)
(* dtrsmFT: triangular solve B := B * A^{-T} with checksum update.         *)
(***************************************************************************)
RECURSIVE dtrsm(_, _, _, _, _, _, _)
\* dtrsm(Right, Lower, Trans, NonUnit, m, n, 1, A, lda, B, ldb), columns k, ..., n-1:
\*   B(:, k) /= A(k, k);  B(:, j) -= A(j, k) * B(:, k) for j > k
dtrsm(m, n, A, lda, B, ldb, k) ==
    IF k >= n THEN B
    ELSE LET scaled == [a \in DOMAIN B |->
                           IF a \div ldb = k /\ a % ldb < m
                           THEN Quot(B[a], A[k + k * lda]) ELSE B[a]]
             elim   == [a \in DOMAIN B |->
                           IF a \div ldb > k /\ a \div ldb < n /\ a % ldb < m
                           THEN scaled[a] - A[(a \div ldb) + k * lda] * scaled[(a % ldb) + k * ldb]
                           ELSE scaled[a]]
         IN  dtrsm(m, n, A, lda, elim, ldb, k + 1)

\* magma_dgemv(MagmaTrans, n, n, 1, B + i, ldb, vd + t, vd_ld, 0, chk + i/n, chk_ld)
\* for every block i = 0, n, 2n, ... < m: chk[i/n + j*chk_ld] = sum_r vd[t, r] * B[i + r, j]
TrsmRecalc(m, n, B, ldb, chk_ld, t) ==
    [k \in 0 .. chk_ld * n - 1 |->
        LET b == k % chk_ld
            j == k \div chk_ld
        IN  IF b * n < m
            THEN SumTo([r \in 0 .. n - 1 |-> Weight(t, r) * B[b * n + r + j * ldb]], n)
            ELSE 0]

\* the per-block column checksums of the m x n matrix B: rows 2b and 2b+1 of
\* the (m/n)*2 x n block hold the two checksums of the rows b*n .. b*n+n-1
BlockEncode(m, n, B, ldb, chk_ld) ==
    [k \in 0 .. chk_ld * n - 1 |->
        LET row == k % chk_ld
            j   == k \div chk_ld
        IN  SumTo([r \in 0 .. n - 1 |-> Weight(row % 2, r) * B[(row \div 2) * n + r + j * ldb]], n)]

ChecksumRowsHalf(m, n) == m \div n

\* m2 = (m / n) * 2, the rows of checksumB the host solve covers
ChecksumRows(m, n) == (m \div n) * 2

\* X * A^T for an m x n X and the n x n A, as m x n memory (ld m)
TimesTranspose(X, A, m, n) ==
    [a \in 0 .. m * n - 1 |->
        SumTo([k \in 0 .. n - 1 |-> X[(a % m) + k * m] * A[(a \div m) + k * n]], n)]

TrsmInit(L, s, ft, verify) ==
    LET n == TrsmN
        m == TrsmN * TrsmBlocks
        B == TimesTranspose(MatrixMem(s, m, n, m), L, m, n)
    IN  [m |-> m, n |-> n, FT |-> ft, VERIFY |-> verify,
         A |-> L, lda |-> n, work |-> L, work_ld |-> n,
         B |-> B, ldb |-> m, B0 |-> B,
         checksumB |-> BlockEncode(m, n, B, m, 2 * TrsmBlocks),
         checksumB_ld |-> 2 * TrsmBlocks,
         checksum0 |-> BlockEncode(m, n, B, m, 2 * TrsmBlocks),
         chk1 |-> [k \in 0 .. TrsmBlocks * n - 1 |-> 0], chk1_ld |-> TrsmBlocks,
         chk2 |-> [k \in 0 .. TrsmBlocks * n - 1 |-> 0], chk2_ld |-> TrsmBlocks,
         ops |-> <<>>,
         pc |-> IF ft /\ verify THEN "verify" ELSE "solve"]

\* if (FT && VERIFY): recalculate the checksums of B on the GPU (the error
\* handling is "to be finished": nothing is compared or corrected)
TrsmVerify ==
    /\ trsm.pc = "verify"
    /\ trsm' = [trsm EXCEPT
          !.chk1 = TrsmRecalc(trsm.m, trsm.n, trsm.B, trsm.ldb, trsm.chk1_ld, 0),
          !.chk2 = TrsmRecalc(trsm.m, trsm.n, trsm.B, trsm.ldb, trsm.chk2_ld, 1),
          !.ops = Append(@, "recalc"),
          !.pc = "solve"]

\* magma_dtrsm(MagmaRight, MagmaLower, MagmaTrans, MagmaNonUnit, m, n, 1, A, lda, B, ldb)
TrsmSolve ==
    /\ trsm.pc = "solve"
    /\ trsm' = [trsm EXCEPT
          !.B = dtrsm(trsm.m, trsm.n, trsm.A, trsm.lda, trsm.B, trsm.ldb, 0),
          !.ops = Append(@, "dtrsm"),
          !.pc = IF trsm.FT THEN "update" ELSE "done"]

\* if (FT): blasf77_dtrsm(R, L, T, N, m2, n2, 1, work, work_ld, checksumB, checksumB_ld)
TrsmUpdate ==
    /\ trsm.pc = "update"
    /\ trsm' = [trsm EXCEPT
          !.checksumB = dtrsm(ChecksumRows(trsm.m, trsm.n), trsm.n, trsm.work,
                              trsm.work_ld, trsm.checksumB, trsm.checksumB_ld, 0),
          !.ops = Append(@, "dtrsm-checksum"),
          !.pc = "done"]

InitTrsm ==
    /\ trsm \in {TrsmInit(L, s, ft, verify) :
                    L \in Factors(TrsmN), s \in 0 .. MaxSeed,
                    ft \in BOOLEAN, verify \in BOOLEAN}
    /\ ec = [pc |-> "idle"]
    /\ potrf = [pc |-> "idle"]
    /\ syrk = [pc |-> "idle"]
    /\ gemm = [pc |-> "idle"]
    /\ posv = [pc |-> "idle"]
    /\ zpotrf = [pc |-> "idle"]
    /\ zgesv = [pc |-> "idle"]
    /\ spotrf_m = [pc |-> "idle"]
    /\ eig = [pc |-> "idle"]

NextTrsm ==
    \/ /\ TrsmVerify
       /\ UNCHANGED <<ec, potrf, syrk, gemm, posv, zpotrf, zgesv, spotrf_m, eig>>
    \/ /\ TrsmSolve
       /\ UNCHANGED <<ec, potrf, syrk, gemm, posv, zpotrf, zgesv, spotrf_m, eig>>
    \/ /\ TrsmUpdate
       /\ UNCHANGED <<ec, potrf, syrk, gemm, posv, zpotrf, zgesv, spotrf_m, eig>>

SpecTrsm == InitTrsm /\ [][NextTrsm]_vars

(***************************************************************************)
(* Claims about dtrsmFT (under SpecTrsm).                                  *)
(***************************************************************************)
\* B' solves B' * A^T = B  (B' = B * A^{-T})
TrsmSolved ==
    \A i \in 0 .. trsm.m - 1, j \in 0 .. trsm.n - 1 :
        SumTo([k \in 0 .. trsm.n - 1 |->
                  trsm.B[i + k * trsm.ldb] * (IF k <= j THEN trsm.A[j + k * trsm.lda] ELSE 0)],
              trsm.n)
        = trsm.B0[i + j * trsm.ldb]

\* C10: FT = true, m a multiple of n, work = A, checksumB the per-block
\* column checksums of B on entry: on return checksumB holds the per-block
\* column checksums of B' = B * A^{-T}.
C10_ChecksumOfSolution ==
    (trsm.pc = "done" /\ trsm.FT /\ trsm.work = trsm.A)
    => /\ TrsmSolved
       /\ trsm.checksumB = BlockEncode(trsm.m, trsm.n, trsm.B, trsm.ldb, trsm.checksumB_ld)

C10_Witness ==
    /\ trsm.pc = "done" /\ trsm.FT
    /\ trsm.m = 2 * trsm.n
    /\ trsm.A[0] = 2 /\ trsm.A[1] = -1
    /\ trsm.B # trsm.B0
    /\ trsm.checksumB # trsm.checksum0
    /\ \E k \in DOMAIN trsm.checksumB : k % trsm.checksumB_ld >= 2 /\ trsm.checksumB[k] # 0
    /\ trsm.checksumB = BlockEncode(trsm.m, trsm.n, trsm.B, trsm.ldb, trsm.checksumB_ld)

(***************************************************************************)
(* GPU BLAS on linear memory, and the streams.                             *)
(***************************************************************************)
\* magma_dgemm(transA, transB, m, n, k, alpha, dA, ldda, dB, lddb, beta, dC, lddc):
\* C := alpha * op(A) * op(B) + beta * C on the leading m x n part of dC
magma_dgemm(transA, transB, m, n, k, alpha, dA, ldda, dB, lddb, beta, dC, lddc) ==
    LET opA(i, l) == IF transA = "NoTrans" THEN dA[i + l * ldda] ELSE dA[l + i * ldda]
        opB(l, j) == IF transB = "NoTrans" THEN dB[l + j * lddb] ELSE dB[j + l * lddb]
    IN  [a \in DOMAIN dC |->
            IF a % lddc < m /\ a \div lddc < n
            THEN alpha * SumTo([l \in 0 .. k - 1 |-> opA(a % lddc, l) * opB(l, a \div lddc)], k)
                 + beta * dC[a]
            ELSE dC[a]]

\* magma_dgemv(MagmaTrans, m, n, 1, dA, ldda, dx, incx, 0, dy, incy), dx the
\* weight vector t:  y[j] = sum_i A[i, j] * x[i]
magma_dgemv(m, n, dA, ldda, t) ==
    [j \in 0 .. n - 1 |-> SumTo([i \in 0 .. m - 1 |-> dA[i + j * ldda] * Weight(t, i)], m)]

(***************************************************************************)
(* dsyrkFT: C := C - A * A^T with checksum update, on streams[1 .. 4].     *)
(***************************************************************************)
\* the perturbations of a corrupted element of A
SyrkFaultValues == {-3, 5}

\* the arguments uplo, trans, alpha and beta of the calls
SyrkUplos == {"Lower", "Upper"}
SyrkTrans == {"NoTrans", "Trans"}
SyrkAlphas == {-1, 2}
SyrkBetas == {1, 0}

SyrkInit(uplo, trans, alpha, beta, s, ft, verify) ==
    LET n == SyrkN
        m == SyrkM
        A == MatrixMem(s + 1, n, m, n)
        C == MatrixMem(s, n, n, n)
    IN  [uplo |-> uplo, trans |-> trans, alpha |-> alpha, beta |-> beta,
         n |-> n, m |-> m, FT |-> ft, VERIFY |-> verify,
         A |-> A, lda |-> n, C |-> C, ldc |-> n,
         checksumA |-> RecalcChk(A, n, m, 2), checksumA_ld |-> 2,
         checksumC |-> RecalcChk(C, n, n, 2), checksumC_ld |-> 2,
         chk1 |-> [j \in 0 .. m - 1 |-> 0],
         chk2 |-> [j \in 0 .. m - 1 |-> 0],
         A0 |-> A, C0 |-> C, faults |-> {},
         Cin |-> C, checksumCin |-> RecalcChk(C, n, n, 2),
         streams |-> [q \in 1 .. 4 |-> <<>>],
         kernelStream |-> 0,
         call |-> 1,
         done |-> <<>>,
         pc |-> "entry"]

\* A fault before the first call: A[i, j] += e, checksumA not updated
\* (the faults of the model are in the first row of A).
SyrkInject(i, j, e) ==
    /\ syrk.pc = "entry"
    /\ syrk.call = 1
    /\ Cardinality(syrk.faults) < SyrkMaxFaults
    /\ \A f \in syrk.faults : f.row # i \/ f.col # j
    /\ syrk' = [syrk EXCEPT !.A[i + j * syrk.lda] = @ + e,
                            !.faults = @ \cup {[row |-> i, col |-> j, e |-> e]}]

\* the operations the device has completed, as <<operation, call>>
SyrkCompleted == {<<syrk.done[x].op, syrk.done[x].call>> : x \in DOMAIN syrk.done}

\* an operation as the host issues it: seen is what had completed by then
SyrkOp(op) == [op |-> op, call |-> syrk.call, seen |-> SyrkCompleted]

\* the entry of the call without the wait for streams[4]
SyrkEntrySyncOneStream ==
    /\ syrk.pc = "entry"
    /\ syrk.streams[1] = <<>>
    /\ syrk' = [syrk EXCEPT !.Cin = syrk.C, !.checksumCin = syrk.checksumC,
                            !.pc = IF syrk.FT /\ syrk.VERIFY THEN "verify" ELSE "gemm"]

\* cudaStreamSynchronize(streams[1]); cudaStreamSynchronize(streams[4]);
\* (C and checksumC as the call finds them are kept in Cin, checksumCin)
SyrkEntrySync ==
    /\ syrk.pc = "entry"
    /\ syrk.streams[1] = <<>>
    /\ syrk.streams[4] = <<>>
    /\ syrk' = [syrk EXCEPT !.Cin = syrk.C, !.checksumCin = syrk.checksumC,
                            !.pc = IF syrk.FT /\ syrk.VERIFY THEN "verify" ELSE "gemm"]

\* if (FT && VERIFY): the two magma_dgemv, on streams[2] and streams[3]
SyrkVerifyEnqueue ==
    /\ syrk.pc = "verify"
    /\ syrk' = [syrk EXCEPT !.streams[2] = Append(@, SyrkOp("dgemv-chk1")),
                            !.streams[3] = Append(@, SyrkOp("dgemv-chk2")),
                            !.kernelStream = 3,
                            !.pc = "verify-sync"]

\* cudaStreamSynchronize(streams[2]); cudaStreamSynchronize(streams[3]);
\* the error handling is commented out: nothing is compared or corrected
SyrkVerifySync ==
    /\ syrk.pc = "verify-sync"
    /\ syrk.streams[2] = <<>>
    /\ syrk.streams[3] = <<>>
    /\ syrk' = [syrk EXCEPT !.pc = "gemm"]

\* magmablasSetKernelStream(streams[1]); magma_dgemm(NoTrans, Trans, n, n, m, -1, A, A, 1, C);
\* if (FT) { magmablasSetKernelStream(streams[4]); magma_dgemm(NoTrans, Trans, 2, n, m, ...); }
\* and the return
SyrkEnqueue ==
    /\ syrk.pc = "gemm"
    /\ syrk' = [syrk EXCEPT
          !.streams[1] = Append(@, SyrkOp("dgemm")),
          !.streams[4] = IF syrk.FT THEN Append(@, SyrkOp("dgemm-checksum")) ELSE @,
          !.kernelStream = IF syrk.FT THEN 4 ELSE 1,
          !.pc = "returned"]

\* the caller calls dsyrkFT again with the same arguments and streams
SyrkCall ==
    /\ syrk.pc = "returned"
    /\ syrk.call < SyrkMaxCalls
    /\ syrk' = [syrk EXCEPT !.call = @ + 1, !.pc = "entry"]

\* the effect of an operation of a stream on the memory of the device
SyrkEffect(op) ==
    CASE op = "dgemv-chk1" ->
            [syrk EXCEPT !.chk1 = magma_dgemv(syrk.n, syrk.m, syrk.A, syrk.lda, 0)]
      [] op = "dgemv-chk2" ->
            [syrk EXCEPT !.chk2 = magma_dgemv(syrk.n, syrk.m, syrk.A, syrk.lda, 1)]
      [] op = "dgemm" ->
            [syrk EXCEPT !.C = magma_dgemm("NoTrans", "Trans", syrk.n, syrk.n, syrk.m, -1,
                                           syrk.A, syrk.lda, syrk.A, syrk.lda, 1,
                                           syrk.C, syrk.ldc)]
      [] op = "dgemm-checksum" ->
            [syrk EXCEPT !.checksumC =
                    magma_dgemm("NoTrans", "Trans", 2, syrk.n, syrk.m, -1,
                                syrk.checksumA, syrk.checksumA_ld, syrk.A, syrk.lda, 1,
                                syrk.checksumC, syrk.checksumC_ld)]

\* The device runs the operation at the head of stream q.
SyrkExec(q) ==
    /\ syrk.pc # "idle"
    /\ syrk.streams[q] # <<>>
    /\ syrk' = [SyrkEffect(Head(syrk.streams[q]).op) EXCEPT
                    !.streams[q] = Tail(@),
                    !.done = Append(@, Head(syrk.streams[q]))]

InitSyrk ==
    /\ syrk \in {SyrkInit(uplo, trans, alpha, beta, s, ft, verify) :
                    uplo \in SyrkUplos, trans \in SyrkTrans,
                    alpha \in SyrkAlphas, beta \in SyrkBetas,
                    s \in 0 .. MaxSeed, ft \in BOOLEAN, verify \in BOOLEAN}
    /\ ec = [pc |-> "idle"]
    /\ potrf = [pc |-> "idle"]
    /\ trsm = [pc |-> "idle"]
    /\ gemm = [pc |-> "idle"]
    /\ posv = [pc |-> "idle"]
    /\ zpotrf = [pc |-> "idle"]
    /\ zgesv = [pc |-> "idle"]
    /\ spotrf_m = [pc |-> "idle"]
    /\ eig = [pc |-> "idle"]

NextSyrk ==
    \/ /\ syrk.pc = "entry"
       /\ \E j \in 0 .. syrk.m - 1, e \in SyrkFaultValues : SyrkInject(0, j, e)
       /\ UNCHANGED <<ec, potrf, trsm, gemm, posv, zpotrf, zgesv, spotrf_m, eig>>
    \/ /\ SyrkEntrySync
       /\ UNCHANGED <<ec, potrf, trsm, gemm, posv, zpotrf, zgesv, spotrf_m, eig>>
    \/ /\ SyrkVerifyEnqueue
       /\ UNCHANGED <<ec, potrf, trsm, gemm, posv, zpotrf, zgesv, spotrf_m, eig>>
    \/ /\ SyrkVerifySync
       /\ UNCHANGED <<ec, potrf, trsm, gemm, posv, zpotrf, zgesv, spotrf_m, eig>>
    \/ /\ SyrkEnqueue
       /\ UNCHANGED <<ec, potrf, trsm, gemm, posv, zpotrf, zgesv, spotrf_m, eig>>
    \/ /\ SyrkCall
       /\ UNCHANGED <<ec, potrf, trsm, gemm, posv, zpotrf, zgesv, spotrf_m, eig>>
    \/ /\ \E q \in 1 .. 4 : SyrkExec(q)
       /\ UNCHANGED <<ec, potrf, trsm, gemm, posv, zpotrf, zgesv, spotrf_m, eig>>

SpecSyrk == InitSyrk /\ [][NextSyrk]_vars

(***************************************************************************)
(* Claims about dsyrkFT (under SpecSyrk).                                  *)
(***************************************************************************)
\* the call has returned and every operation it enqueued has completed
SyrkComplete == syrk.pc = "returned" /\ \A q \in 1 .. 4 : syrk.streams[q] = <<>>

\* the output of the fault-free run of one call: C0 - A0 * A0^T
SyrkFaultFree ==
    magma_dgemm("NoTrans", "Trans", syrk.n, syrk.n, syrk.m, -1,
                syrk.A0, syrk.lda, syrk.A0, syrk.lda, 1, syrk.C0, syrk.ldc)

\* C6: with FT and VERIFY, one element of the operand A corrupted since its
\* checksum was consistent: the element is restored before the main kernel
\* reads A, so the output equals the fault-free output.
C6_AsStated ==
    (syrk.FT /\ syrk.VERIFY /\ Cardinality(syrk.faults) = 1)
    => /\ <<"dgemm", 1>> \in SyrkCompleted => syrk.A = syrk.A0
       /\ (SyrkComplete /\ syrk.call = 1) => syrk.C = SyrkFaultFree

\* the triangle of an n x n matrix that uplo selects, as offsets
Triangle(uplo, n, ld) ==
    {i + j * ld : i \in 0 .. n - 1, j \in 0 .. n - 1} \cap
    {a \in 0 .. n * ld - 1 : IF uplo = "Lower" THEN a % ld >= a \div ld ELSE a % ld <= a \div ld}

\* C11: on completion of a call of dsyrkFT without corruption,
\* C = alpha*A*A^T + beta*C_old on the triangle uplo selects and
\* checksumC = alpha*checksumA*A^T + beta*checksumC_old, for the alpha, beta,
\* uplo and trans passed in.
C11_AsStated ==
    (SyrkComplete /\ syrk.faults = {})
    => /\ \A a \in Triangle(syrk.uplo, syrk.n, syrk.ldc) :
             syrk.C[a] = magma_dgemm("NoTrans", "Trans", syrk.n, syrk.n, syrk.m, syrk.alpha,
                                     syrk.A, syrk.lda, syrk.A, syrk.lda, syrk.beta,
                                     syrk.Cin, syrk.ldc)[a]
       /\ syrk.FT => syrk.checksumC =
                        magma_dgemm("NoTrans", "Trans", 2, syrk.n, syrk.m, syrk.alpha,
                                    syrk.checksumA, syrk.checksumA_ld, syrk.A, syrk.lda,
                                    syrk.beta, syrk.checksumCin, syrk.checksumC_ld)

\* C13: in a sequence of calls of dsyrkFT on the same streams, every
\* operation of a call is issued (so also starts) after the main GEMM and
\* the checksum GEMM of the call before have completed, and with FT and
\* VERIFY the main GEMM of a call is issued after both of its GEMVs have
\* completed.
C13_CallsOrdered ==
    \A x \in DOMAIN syrk.done :
        LET d == syrk.done[x]
            earlier == {<<syrk.done[y].op, syrk.done[y].call>> : y \in 1 .. x - 1}
        IN  /\ d.seen \subseteq earlier
            /\ d.call > 1 => /\ <<"dgemm", d.call - 1>> \in d.seen
                             /\ syrk.FT => <<"dgemm-checksum", d.call - 1>> \in d.seen
            /\ (d.op = "dgemm" /\ syrk.FT /\ syrk.VERIFY)
               => /\ <<"dgemv-chk1", d.call>> \in d.seen
                  /\ <<"dgemv-chk2", d.call>> \in d.seen

C13_Witness ==
    /\ syrk.FT /\ syrk.VERIFY /\ SyrkComplete /\ syrk.call = 2
    /\ {<<"dgemv-chk1", 2>>, <<"dgemv-chk2", 2>>, <<"dgemm", 2>>, <<"dgemm-checksum", 2>>}
          \subseteq SyrkCompleted

(***************************************************************************)
(* abft_dgemm: C := alpha*op(A)*op(B) + beta*C on stream1, the checksums   *)
(* of C on stream2, the checks of the operands on stream1.                 *)
(***************************************************************************)
Trans == {"NoTrans", "Trans", "ConjTrans"}

\* the scalars alpha and beta of the calls
Alphas == {-1, 2}
Betas == {0, 1, -2}

\* column checksums per block of nb rows: rows 2b, 2b+1 of the
\* (rows/nb)*2 x cols block are the two checksums of rows b*nb .. b*nb+nb-1
ColChkEnc(mem, ld, rows, cols, nb, chk_ld) ==
    [a \in 0 .. chk_ld * cols - 1 |->
        LET r == a % chk_ld
            j == a \div chk_ld
        IN  IF r < (rows \div nb) * 2
            THEN SumTo([i \in 0 .. nb - 1 |->
                           Weight(r % 2, i) * mem[(r \div 2) * nb + i + j * ld]], nb)
            ELSE 0]

\* row checksums per block of nb columns: columns 2b, 2b+1 of the
\* rows x (cols/nb)*2 block are the two checksums of columns b*nb .. b*nb+nb-1
RowChkEnc(mem, ld, rows, cols, nb, chk_ld) ==
    [a \in 0 .. chk_ld * ((cols \div nb) * 2) - 1 |->
        LET i == a % chk_ld
            c == a \div chk_ld
        IN  IF i < rows
            THEN SumTo([j \in 0 .. nb - 1 |->
                           Weight(c % 2, j) * mem[i + ((c \div 2) * nb + j) * ld]], nb)
            ELSE 0]

\* abft_checker_colchk / abft_checker_rowchk (kind = "col" / "row"): the
\* checksums of the data are recomputed into the _r buffer and compared with
\* the stored ones (values in units, tolerance in tenths).  A (block, line)
\* is flagged when both of its checksums disagree.  None flagged: ok.  One
\* flagged: the element is located and corrected.  More: nothing is
\* corrected and MultipleCorruption is the verdict.
abft_checker(kind, mem, ld, rows, cols, nb, chk, chk_ld) ==
    LET r == IF kind = "col" THEN ColChkEnc(mem, ld, rows, cols, nb, chk_ld)
             ELSE RowChkEnc(mem, ld, rows, cols, nb, chk_ld)
        at(b, l, t) == IF kind = "col" THEN (2 * b + t) + l * chk_ld
                       ELSE l + (2 * b + t) * chk_ld
        blocks == IF kind = "col" THEN rows \div nb ELSE cols \div nb
        lines  == IF kind = "col" THEN cols ELSE rows
        flagged == {p \in (0 .. blocks - 1) \X (0 .. lines - 1) :
                      /\ Flagged(10 * Abs(chk[at(p[1], p[2], 0)] - r[at(p[1], p[2], 0)]))
                      /\ Flagged(10 * Abs(chk[at(p[1], p[2], 1)] - r[at(p[1], p[2], 1)]))}
        fix(p) == LET d1  == chk[at(p[1], p[2], 0)] - r[at(p[1], p[2], 0)]
                      d2  == chk[at(p[1], p[2], 1)] - r[at(p[1], p[2], 1)]
                      pos == LocateRow(Abs(d2), Abs(d1))
                      addr == IF kind = "col" THEN p[1] * nb + pos + p[2] * ld
                              ELSE p[2] + (p[1] * nb + pos) * ld
                  IN  IF pos >= 0 /\ pos < nb THEN [mem EXCEPT ![addr] = @ + d1] ELSE mem
    IN  IF flagged = {} THEN [data |-> mem, r |-> r, verdict |-> "ok"]
        ELSE IF Cardinality(flagged) = 1
             THEN [data |-> fix(CHOOSE p \in flagged : TRUE), r |-> r,
                   verdict |-> "SingleCorruption"]
             ELSE [data |-> mem, r |-> r, verdict |-> "MultipleCorruption"]

\* the rows and columns of an operand as stored (no transposition applied)
MemRow(trans, rowsOfOp, colsOfOp) == IF trans = "NoTrans" THEN rowsOfOp ELSE colsOfOp
MemCol(trans, rowsOfOp, colsOfOp) == IF trans = "NoTrans" THEN colsOfOp ELSE rowsOfOp

\* the patterns of corruption of dA before a call: one element, or two
\* elements in two columns and two rows
GemmFaultSets ==
    {{[row |-> 0, col |-> 0, e |-> 5]},
     {[row |-> 0, col |-> 0, e |-> 5], [row |-> 1, col |-> 1, e |-> -3]}}

\* the operands A and B of a call: for seed 0 the matrix whose only
\* non-zero element is v at [0, 0], for the other seeds a full matrix
GemmOperand(s, t, v, rows, cols, ld) ==
    IF s = 0 THEN [a \in 0 .. ld * cols - 1 |-> IF a = 0 THEN v ELSE 0]
    ELSE MatrixMem(t, rows, cols, ld)

GemmInit(transA, transB, alpha, beta, s, ft, before, after) ==
    LET nb == GemmNb
        m  == GemmNb * GemmBlocks
        n  == GemmNb
        k  == GemmNb
        ar == MemRow(transA, m, k)
        ac == MemCol(transA, m, k)
        br == MemRow(transB, k, n)
        bc == MemCol(transB, k, n)
        A  == GemmOperand(s, s + 1, 3, ar, ac, ar)
        B  == GemmOperand(s, s + 2, 2, br, bc, br)
        C  == MatrixMem(s, m, n, m)
    IN  [transA |-> transA, transB |-> transB, m |-> m, n |-> n, k |-> k, nb |-> nb,
         alpha |-> alpha, beta |-> beta,
         FT |-> ft, CHECK_BEFORE |-> before, CHECK_AFTER |-> after,
         dA |-> A, ldda |-> ar, dB |-> B, lddb |-> br, dC |-> C, lddc |-> m,
         dA_colchk |-> ColChkEnc(A, ar, ar, ac, nb, (ar \div nb) * 2),
         ldda_colchk |-> (ar \div nb) * 2,
         dA_rowchk |-> RowChkEnc(A, ar, ar, ac, nb, ar), ldda_rowchk |-> ar,
         dB_colchk |-> ColChkEnc(B, br, br, bc, nb, (br \div nb) * 2),
         lddb_colchk |-> (br \div nb) * 2,
         dB_rowchk |-> RowChkEnc(B, br, br, bc, nb, br), lddb_rowchk |-> br,
         dC_colchk |-> ColChkEnc(C, m, m, n, nb, (m \div nb) * 2),
         lddc_colchk |-> (m \div nb) * 2,
         dC_rowchk |-> RowChkEnc(C, m, m, n, nb, m), lddc_rowchk |-> m,
         A0 |-> A, B0 |-> B, C0 |-> C, faults |-> {},
         stream1 |-> <<>>, stream2 |-> <<>>,
         issued |-> <<>>, done |-> <<>>,
         ret |-> "none",
         pc |-> "entry"]

\* Faults before the call: dA[row, col] += e, the checksums of dA not updated.
GemmCorrupt(F) ==
    /\ gemm.pc = "entry"
    /\ gemm.faults = {}
    /\ gemm' = [gemm EXCEPT
          !.dA = [a \in DOMAIN gemm.dA |->
                     gemm.dA[a] + AddAll({[addr |-> a, add |-> f.e] : f \in
                         {g \in F : g.row + g.col * gemm.ldda = a}})],
          !.faults = F]

\* the checks before the main GEMM with the checksum kinds of A and B taken
\* as if the operands were never transposed
BeforeChecksNoTrans(transA, transB) ==
    << [op |-> "check", when |-> "before", on |-> "A", kind |-> "col"],
       [op |-> "check", when |-> "before", on |-> "B", kind |-> "row"],
       [op |-> "check", when |-> "before", on |-> "C", kind |-> "col"],
       [op |-> "check", when |-> "before", on |-> "C", kind |-> "row"] >>

\* the operations abft_dgemm issues on stream1 before the main GEMM
BeforeChecks(transA, transB) ==
    << [op |-> "check", when |-> "before", on |-> "A",
        kind |-> IF transA = "NoTrans" THEN "col" ELSE "row"],
       [op |-> "check", when |-> "before", on |-> "B",
        kind |-> IF transB = "NoTrans" THEN "row" ELSE "col"],
       [op |-> "check", when |-> "before", on |-> "C", kind |-> "col"],
       [op |-> "check", when |-> "before", on |-> "C", kind |-> "row"] >>

AfterChecks ==
    << [op |-> "check", when |-> "after", on |-> "C", kind |-> "col"],
       [op |-> "check", when |-> "after", on |-> "C", kind |-> "row"] >>

MainGemm == [op |-> "dgemm", when |-> "main", on |-> "C", kind |-> "data"]

ChecksumGemms ==
    << [op |-> "dgemm", when |-> "main", on |-> "C", kind |-> "col"],
       [op |-> "dgemm", when |-> "main", on |-> "C", kind |-> "row"] >>

\* the call with the checks issued whatever FT is
abft_dgemmChecksWithoutFT ==
    /\ gemm.pc = "entry"
    /\ LET before == IF gemm.CHECK_BEFORE
                     THEN BeforeChecks(gemm.transA, gemm.transB) ELSE <<>>
           after  == IF gemm.CHECK_AFTER THEN AfterChecks ELSE <<>>
           chk    == IF gemm.FT THEN ChecksumGemms ELSE <<>>
       IN  gemm' = [gemm EXCEPT
              !.stream1 = @ \o before \o <<MainGemm>> \o after,
              !.stream2 = @ \o chk,
              !.issued = before \o <<MainGemm>> \o chk \o after,
              !.ret = "void",
              !.pc = "returned"]

\* abft_dgemm: every operation is enqueued, none is waited for, and the
\* function returns nothing
abft_dgemm ==
    /\ gemm.pc = "entry"
    /\ LET before == IF gemm.FT /\ gemm.CHECK_BEFORE
                     THEN BeforeChecks(gemm.transA, gemm.transB) ELSE <<>>
           after  == IF gemm.FT /\ gemm.CHECK_AFTER THEN AfterChecks ELSE <<>>
           chk    == IF gemm.FT THEN ChecksumGemms ELSE <<>>
       IN  gemm' = [gemm EXCEPT
              !.stream1 = @ \o before \o <<MainGemm>> \o after,
              !.stream2 = @ \o chk,
              !.issued = before \o <<MainGemm>> \o chk \o after,
              !.ret = "void",
              !.pc = "returned"]

ColChecksumGemmFromColchk(g) ==
    magma_dgemm(g.transA, g.transB, (g.m \div g.nb) * 2, g.n, g.k, g.alpha,
                g.dA_colchk, g.ldda_colchk, g.dB, g.lddb, g.beta,
                g.dC_colchk, g.lddc_colchk)

\* the first checksum GEMM: dC_colchk from the checksum of A that matches transA
ColChecksumGemm(g) ==
    IF g.transA = "NoTrans"
    THEN magma_dgemm(g.transA, g.transB, (g.m \div g.nb) * 2, g.n, g.k, g.alpha,
                     g.dA_colchk, g.ldda_colchk, g.dB, g.lddb, g.beta,
                     g.dC_colchk, g.lddc_colchk)
    ELSE magma_dgemm(g.transA, g.transB, (g.m \div g.nb) * 2, g.n, g.k, g.alpha,
                     g.dA_rowchk, g.ldda_rowchk, g.dB, g.lddb, g.beta,
                     g.dC_colchk, g.lddc_colchk)

\* the second checksum GEMM: dC_rowchk from the checksum of B that matches transB
RowChecksumGemm(g) ==
    IF g.transB = "NoTrans"
    THEN magma_dgemm(g.transA, g.transB, g.m, (g.n \div g.nb) * 2, g.k, g.alpha,
                     g.dA, g.ldda, g.dB_rowchk, g.lddb_rowchk, g.beta,
                     g.dC_rowchk, g.lddc_rowchk)
    ELSE magma_dgemm(g.transA, g.transB, g.m, (g.n \div g.nb) * 2, g.k, g.alpha,
                     g.dA, g.ldda, g.dB_colchk, g.lddb_colchk, g.beta,
                     g.dC_rowchk, g.lddc_rowchk)

\* a check of an operand: mem_row, mem_col as abft_dgemm sets them
GemmCheck(g, o) ==
    LET rows == IF o.on = "A" THEN MemRow(g.transA, g.m, g.k)
                ELSE IF o.on = "B" THEN MemRow(g.transB, g.k, g.n) ELSE g.m
        cols == IF o.on = "A" THEN MemCol(g.transA, g.m, g.k)
                ELSE IF o.on = "B" THEN MemCol(g.transB, g.k, g.n) ELSE g.n
        mem  == IF o.on = "A" THEN g.dA ELSE IF o.on = "B" THEN g.dB ELSE g.dC
        ld   == IF o.on = "A" THEN g.ldda ELSE IF o.on = "B" THEN g.lddb ELSE g.lddc
        chk  == IF o.on = "A" THEN (IF o.kind = "col" THEN g.dA_colchk ELSE g.dA_rowchk)
                ELSE IF o.on = "B" THEN (IF o.kind = "col" THEN g.dB_colchk ELSE g.dB_rowchk)
                ELSE (IF o.kind = "col" THEN g.dC_colchk ELSE g.dC_rowchk)
        chk_ld == IF o.kind = "col" THEN (rows \div g.nb) * 2 ELSE rows
    IN  abft_checker(o.kind, mem, ld, rows, cols, g.nb, chk, chk_ld)

\* the effect of an operation on the memory of the device, and what it
\* found (for a check)
GemmEffect(g, o) ==
    IF o.op = "check"
    THEN LET c == GemmCheck(g, o) IN
         [g EXCEPT !.dA = IF o.on = "A" THEN c.data ELSE @,
                   !.dB = IF o.on = "B" THEN c.data ELSE @,
                   !.dC = IF o.on = "C" THEN c.data ELSE @,
                   !.done = Append(@, [op |-> o, verdict |-> c.verdict,
                                       seen |-> {d.op : d \in {g.done[x] : x \in DOMAIN g.done}}])]
    ELSE LET h == IF o.kind = "data"
                  THEN [g EXCEPT !.dC = magma_dgemm(g.transA, g.transB, g.m, g.n, g.k,
                                                    g.alpha, g.dA, g.ldda, g.dB, g.lddb,
                                                    g.beta, g.dC, g.lddc)]
                  ELSE IF o.kind = "col"
                       THEN [g EXCEPT !.dC_colchk = ColChecksumGemm(g)]
                       ELSE [g EXCEPT !.dC_rowchk = RowChecksumGemm(g)]
         IN  [h EXCEPT !.done = Append(@, [op |-> o, verdict |-> "none",
                                           seen |-> {d.op : d \in {g.done[x] : x \in DOMAIN g.done}}])]

\* The device runs the operation at the head of stream1.
GemmExec1 ==
    /\ gemm.pc = "returned"
    /\ gemm.stream1 # <<>>
    /\ gemm' = [GemmEffect(gemm, Head(gemm.stream1)) EXCEPT !.stream1 = Tail(@)]

\* The device runs the operation at the head of stream2.
GemmExec2 ==
    /\ gemm.pc = "returned"
    /\ gemm.stream2 # <<>>
    /\ gemm' = [GemmEffect(gemm, Head(gemm.stream2)) EXCEPT !.stream2 = Tail(@)]

InitGemm ==
    /\ gemm \in {GemmInit(ta, tb, alpha, beta, s, ft, before, after) :
                    ta \in Trans, tb \in Trans, alpha \in Alphas, beta \in Betas,
                    s \in 0 .. MaxSeed, ft \in BOOLEAN, before \in BOOLEAN,
                    after \in BOOLEAN}
    /\ ec = [pc |-> "idle"]
    /\ potrf = [pc |-> "idle"]
    /\ trsm = [pc |-> "idle"]
    /\ syrk = [pc |-> "idle"]
    /\ posv = [pc |-> "idle"]
    /\ zpotrf = [pc |-> "idle"]
    /\ zgesv = [pc |-> "idle"]
    /\ spotrf_m = [pc |-> "idle"]
    /\ eig = [pc |-> "idle"]

NextGemm ==
    \/ /\ \E F \in GemmFaultSets : GemmCorrupt(F)
       /\ UNCHANGED <<ec, potrf, trsm, syrk, posv, zpotrf, zgesv, spotrf_m, eig>>
    \/ /\ abft_dgemm
       /\ UNCHANGED <<ec, potrf, trsm, syrk, posv, zpotrf, zgesv, spotrf_m, eig>>
    \/ /\ GemmExec1
       /\ UNCHANGED <<ec, potrf, trsm, syrk, posv, zpotrf, zgesv, spotrf_m, eig>>
    \/ /\ GemmExec2
       /\ UNCHANGED <<ec, potrf, trsm, syrk, posv, zpotrf, zgesv, spotrf_m, eig>>

SpecGemm == InitGemm /\ [][NextGemm]_vars

(***************************************************************************)
(* Claims about abft_dgemm, checked under SpecGemm.                        *)
(***************************************************************************)
GemmDone == {gemm.done[x].op : x \in DOMAIN gemm.done}

\* alpha*op(A)*op(B) + beta*C of the operands the call was given
GemmExpected ==
    magma_dgemm(gemm.transA, gemm.transB, gemm.m, gemm.n, gemm.k, gemm.alpha,
                gemm.A0, gemm.ldda, gemm.B0, gemm.lddb, gemm.beta, gemm.C0, gemm.lddc)

\* C1: with FT on and no corruption, once the two checksum GEMMs of stream2
\* have run, dC_colchk holds the column checksums and dC_rowchk the row
\* checksums of alpha*op(A)*op(B) + beta*C, for every transA, transB, alpha
\* and beta.
C1_ChecksumsPropagated ==
    (gemm.pc = "returned" /\ gemm.FT /\ gemm.faults = {} /\ gemm.stream2 = <<>>)
    => /\ gemm.dC_colchk = ColChkEnc(GemmExpected, gemm.lddc, gemm.m, gemm.n,
                                     gemm.nb, gemm.lddc_colchk)
       /\ gemm.dC_rowchk = RowChkEnc(GemmExpected, gemm.lddc, gemm.m, gemm.n,
                                     gemm.nb, gemm.lddc_rowchk)

C1_Witness ==
    /\ gemm.pc = "returned" /\ gemm.FT /\ gemm.faults = {}
    /\ gemm.stream1 = <<>> /\ gemm.stream2 = <<>>
    /\ gemm.transA = "Trans" /\ gemm.transB = "NoTrans"
    /\ gemm.alpha = 2 /\ gemm.beta = -2
    /\ gemm.dC = GemmExpected
    /\ gemm.dC_colchk # ColChkEnc(gemm.C0, gemm.lddc, gemm.m, gemm.n, gemm.nb, gemm.lddc_colchk)
    /\ gemm.dC_rowchk # RowChkEnc(gemm.C0, gemm.lddc, gemm.m, gemm.n, gemm.nb, gemm.lddc_rowchk)

\* C2: a check of C after the main GEMM (CHECK_AFTER, on stream1) runs only
\* when both checksum GEMMs of stream2 have completed.
C2_AsStated ==
    \A x \in DOMAIN gemm.done :
        gemm.done[x].op.when = "after"
        => {ChecksumGemms[1], ChecksumGemms[2]} \subseteq gemm.done[x].seen

\* C7: when a check before the main GEMM finds more than one corrupted
\* column, the main GEMM is skipped and no propagated checksum is written.
C7_AsStated ==
    (\E x \in DOMAIN gemm.done : /\ gemm.done[x].op.when = "before"
                                 /\ gemm.done[x].verdict = "MultipleCorruption")
    => /\ MainGemm \notin GemmDone
       /\ ChecksumGemms[1] \notin GemmDone
       /\ ChecksumGemms[2] \notin GemmDone
       /\ gemm.dC = gemm.C0

(***************************************************************************)
(* The four protected kernels, each run on its own.                        *)
(***************************************************************************)
InitKernels == InitGemm \/ InitSyrk \/ InitTrsm \/ InitPotrf

NextKernels == NextGemm \/ NextSyrk \/ NextTrsm \/ NextPotrf

SpecKernels == InitKernels /\ [][NextKernels]_vars

\* C12: without corruption the data a protected kernel leaves is what the
\* call with FT = false leaves (the main kernel alone, applied to the data
\* of the call), whatever the check flags: abft_dgemm, dsyrkFT, dtrsmFT and
\* dpotrfFT.
C12_AsStated ==
    /\ (gemm.pc = "returned" /\ gemm.faults = {} /\ gemm.stream1 = <<>> /\ gemm.stream2 = <<>>)
       => gemm.dC = GemmExpected /\ gemm.dA = gemm.A0 /\ gemm.dB = gemm.B0
    /\ (syrk.pc # "idle" /\ SyrkComplete /\ syrk.faults = {})
       => /\ syrk.A = syrk.A0
          /\ syrk.C = magma_dgemm("NoTrans", "Trans", syrk.n, syrk.n, syrk.m, -1,
                                  syrk.A0, syrk.lda, syrk.A0, syrk.lda, 1, syrk.Cin, syrk.ldc)
    /\ trsm.pc = "done"
       => /\ trsm.A = trsm.work
          /\ trsm.B = dtrsm(trsm.m, trsm.n, trsm.A, trsm.lda, trsm.B0, trsm.ldb, 0)
    /\ potrf.pc = "done"
       => potrf.A = lapackf77_dpotrf("L", potrf.n, Gram(potrf.L, potrf.n), potrf.n).A

(***************************************************************************)
(* magma_dposv_gpu: argument checks, quick return, factorization, solve.   *)
(***************************************************************************)
Max(a, b) == IF a >= b THEN a ELSE b

\* the values of uplo a caller can pass
PosvUplos == {"MagmaUpper", "MagmaLower", "MagmaFull"}

\* *info after the argument checks (each later failure overwrites the earlier)
PosvArgInfo(uplo, n, nrhs, ldda, lddb) ==
    LET i1 == IF uplo # "MagmaUpper" /\ uplo # "MagmaLower" THEN -1 ELSE 0
        i2 == IF n < 0 THEN -2 ELSE i1
        i3 == IF nrhs < 0 THEN -3 ELSE i2
        i5 == IF ldda < Max(1, n) THEN -5 ELSE i3
        i7 == IF lddb < Max(1, n) THEN -7 ELSE i5
    IN  i7

\* if ( (n == 0) || (nrhs == 0) ) return *info;
PosvQuick(n, nrhs) == (n = 0) \/ (nrhs = 0)

\* fail: the info magma_dpotrf_gpu will return for dA (0: positive definite,
\* k > 0: the leading minor of order k is not)
PosvInit(uplo, n, nrhs, ldda, lddb, fail) ==
    [uplo |-> uplo, n |-> n, nrhs |-> nrhs, ldda |-> ldda, lddb |-> lddb,
     fail |-> fail,
     info |-> 0, ret |-> 0,
     dA |-> "matrix", dB |-> "rhs",
     calls |-> <<>>,
     pc |-> "check"]

\* lines 82-101: the argument checks and the quick return
PosvCheck ==
    /\ posv.pc = "check"
    /\ LET i == PosvArgInfo(posv.uplo, posv.n, posv.nrhs, posv.ldda, posv.lddb) IN
       posv' = [posv EXCEPT
          !.info = i,
          !.ret = i,
          !.calls = IF i # 0 THEN Append(@, "magma_xerbla") ELSE @,
          !.pc = IF i # 0 \/ PosvQuick(posv.n, posv.nrhs) THEN "returned" ELSE "factor"]

\* magma_dpotrf_gpu( uplo, n, dA, ldda, info );
PosvFactor ==
    /\ posv.pc = "factor"
    /\ posv' = [posv EXCEPT
          !.info = posv.fail,
          !.dA = IF posv.fail = 0 THEN "factor" ELSE "partial",
          !.calls = Append(@, "magma_dpotrf_gpu"),
          !.pc = "solve"]

\* if ( *info == 0 ) magma_dpotrs_gpu( ... );  return *info;
PosvSolve ==
    /\ posv.pc = "solve"
    /\ posv' = [posv EXCEPT
          !.dB = IF posv.info = 0 THEN "solution" ELSE @,
          !.calls = IF posv.info = 0 THEN Append(@, "magma_dpotrs_gpu") ELSE @,
          !.ret = posv.info,
          !.pc = "returned"]

InitPosv ==
    /\ posv \in {PosvInit(uplo, n, nrhs, ldda, lddb, fail) :
                    uplo \in PosvUplos, n \in -1 .. PosvMax, nrhs \in -1 .. PosvMax,
                    ldda \in 0 .. PosvMax, lddb \in 0 .. PosvMax, fail \in 0 .. PosvMax}
    /\ posv.fail <= Max(posv.n, 0)
    /\ ec = [pc |-> "idle"]
    /\ potrf = [pc |-> "idle"]
    /\ trsm = [pc |-> "idle"]
    /\ syrk = [pc |-> "idle"]
    /\ gemm = [pc |-> "idle"]
    /\ zpotrf = [pc |-> "idle"]
    /\ zgesv = [pc |-> "idle"]
    /\ spotrf_m = [pc |-> "idle"]
    /\ eig = [pc |-> "idle"]

NextPosv ==
    \/ /\ PosvCheck
       /\ UNCHANGED <<ec, potrf, trsm, syrk, gemm, zpotrf, zgesv, spotrf_m, eig>>
    \/ /\ PosvFactor
       /\ UNCHANGED <<ec, potrf, trsm, syrk, gemm, zpotrf, zgesv, spotrf_m, eig>>
    \/ /\ PosvSolve
       /\ UNCHANGED <<ec, potrf, trsm, syrk, gemm, zpotrf, zgesv, spotrf_m, eig>>

SpecPosv == InitPosv /\ [][NextPosv]_vars

PosvCalled(f) == \E x \in DOMAIN posv.calls : posv.calls[x] = f

\* C17: when magma_dposv_gpu returns info = 0 for n > 0 (any nrhs >= 0),
\* magma_dpotrf_gpu has been called on dA, which holds the factor, and
\* magma_dpotrs_gpu is called if and only if the factorization returned 0.
C17_AsStated ==
    (posv.pc = "returned" /\ posv.ret = 0 /\ posv.n > 0)
    => /\ PosvCalled("magma_dpotrf_gpu")
       /\ posv.dA = "factor"
       /\ PosvCalled("magma_dpotrs_gpu") <=> posv.fail = 0

(***************************************************************************)
(* magma_zpotrf_batched and magma_zpotrf_lg_batched.                       *)
(***************************************************************************)
Min(a, b) == IF a <= b THEN a ELSE b

\* MAGMA_ERR_DEVICE_ALLOC
MAGMA_ERR_DEVICE_ALLOC == -113

\* the first columns of the panels of a matrix of order n: 0, nb, 2nb, ... < n
Panels(n, nb) == {j \in 0 .. n - 1 : j % nb = 0}

\* arginfo after the argument checks of magma_zpotrf_batched
ZpotrfArgInfo(uplo, n, ldda) ==
    IF uplo # "MagmaUpper" /\ uplo # "MagmaLower" THEN -1
    ELSE IF n < 0 THEN -2
    ELSE IF ldda < Max(1, n) THEN -4
    ELSE 0

\* fail[k]: the order of the leading minor of matrix k that is not positive
\* definite (0: none); allocOk: the allocations of the lg routine succeed
ZpotrfInit(uplo, n, ldda, crossover, nb, allocOk, fail) ==
    [uplo |-> uplo, n |-> n, ldda |-> ldda, batchCount |-> ZpotrfBatch,
     crossover |-> crossover, nb |-> nb, allocOk |-> allocOk, fail |-> fail,
     info_array |-> [k \in 1 .. ZpotrfBatch |-> 7],
     arginfo |-> 0, ret |-> 0, j |-> 0,
     panels |-> {},
     pc |-> "check"]

\* lines 297-325: cudaMemset, the argument checks, the quick return and the
\* choice of the routine
ZpotrfCheck ==
    /\ zpotrf.pc = "check"
    /\ LET a == ZpotrfArgInfo(zpotrf.uplo, zpotrf.n, zpotrf.ldda) IN
       zpotrf' = [zpotrf EXCEPT
          !.info_array = [k \in 1 .. zpotrf.batchCount |-> 0],
          !.arginfo = a,
          !.ret = a,
          !.pc = IF a # 0 \/ zpotrf.n = 0 THEN "returned"
                 ELSE IF zpotrf.n > zpotrf.crossover THEN "lg" ELSE "small"]

\* info_array after the panel of columns j .. j + ib - 1
PanelInfo(info_array, fail, j, ib) ==
    [k \in DOMAIN info_array |->
        IF info_array[k] = 0 /\ fail[k] > j /\ fail[k] <= j + ib THEN fail[k]
        ELSE info_array[k]]

\* n <= crossover: the routine of the version the build selects, taken to
\* factorize every matrix, whatever uplo
ZpotrfSmall ==
    /\ zpotrf.pc = "small"
    /\ zpotrf' = [zpotrf EXCEPT
          !.info_array = PanelInfo(@, zpotrf.fail, 0, zpotrf.n),
          !.panels = Panels(zpotrf.n, zpotrf.nb),
          !.ret = 0,
          !.pc = "returned"]

\* magma_zpotrf_lg_batched, lines 26-109: the allocations and their check,
\* the queues, and the test of uplo
ZpotrfLgEnter ==
    /\ zpotrf.pc = "lg"
    /\ zpotrf' = [zpotrf EXCEPT
          !.arginfo = 0,
          !.j = 0,
          !.ret = IF zpotrf.allocOk THEN @ ELSE MAGMA_ERR_DEVICE_ALLOC,
          !.pc = IF ~zpotrf.allocOk THEN "returned"
                 ELSE IF zpotrf.uplo = "MagmaUpper" THEN "fin" ELSE "loop"]

\* one iteration of for (j = 0; j < n; j += nb): the panel and the update
ZpotrfPanel ==
    /\ zpotrf.pc = "loop"
    /\ zpotrf.j < zpotrf.n
    /\ LET ib == Min(zpotrf.nb, zpotrf.n - zpotrf.j) IN
       zpotrf' = [zpotrf EXCEPT
          !.info_array = PanelInfo(@, zpotrf.fail, zpotrf.j, ib),
          !.panels = @ \cup {zpotrf.j},
          !.j = @ + zpotrf.nb]

\* fin: sync, the frees, return arginfo; then the sync and the return of
\* magma_zpotrf_batched
ZpotrfFin ==
    /\ \/ zpotrf.pc = "fin"
       \/ zpotrf.pc = "loop" /\ zpotrf.j >= zpotrf.n
    /\ zpotrf' = [zpotrf EXCEPT !.ret = zpotrf.arginfo, !.pc = "returned"]

InitZpotrf ==
    /\ zpotrf \in {ZpotrfInit(uplo, n, ldda, crossover, nb, allocOk, fail) :
                      uplo \in PosvUplos, n \in -1 .. ZpotrfMaxN, ldda \in 0 .. ZpotrfMaxN,
                      crossover \in {0, 1}, nb \in {1, 2}, allocOk \in BOOLEAN,
                      fail \in [1 .. ZpotrfBatch -> 0 .. ZpotrfMaxN]}
    /\ \A k \in 1 .. ZpotrfBatch : zpotrf.fail[k] <= Max(zpotrf.n, 0)
    /\ ec = [pc |-> "idle"]
    /\ potrf = [pc |-> "idle"]
    /\ trsm = [pc |-> "idle"]
    /\ syrk = [pc |-> "idle"]
    /\ gemm = [pc |-> "idle"]
    /\ posv = [pc |-> "idle"]
    /\ zgesv = [pc |-> "idle"]
    /\ spotrf_m = [pc |-> "idle"]
    /\ eig = [pc |-> "idle"]

NextZpotrf ==
    \/ /\ ZpotrfCheck
       /\ UNCHANGED <<ec, potrf, trsm, syrk, gemm, posv, zgesv, spotrf_m, eig>>
    \/ /\ ZpotrfSmall
       /\ UNCHANGED <<ec, potrf, trsm, syrk, gemm, posv, zgesv, spotrf_m, eig>>
    \/ /\ ZpotrfLgEnter
       /\ UNCHANGED <<ec, potrf, trsm, syrk, gemm, posv, zgesv, spotrf_m, eig>>
    \/ /\ ZpotrfPanel
       /\ UNCHANGED <<ec, potrf, trsm, syrk, gemm, posv, zgesv, spotrf_m, eig>>
    \/ /\ ZpotrfFin
       /\ UNCHANGED <<ec, potrf, trsm, syrk, gemm, posv, zgesv, spotrf_m, eig>>

SpecZpotrf == InitZpotrf /\ [][NextZpotrf]_vars

\* C18: for uplo MagmaUpper or MagmaLower, n > 0 and ldda >= max(1, n), when
\* magma_zpotrf_batched returns 0 and info_array[k] = 0, every panel
\* j = 0, nb, 2nb, ... < n of matrix k was processed; 0 is never returned by
\* a call that factorized nothing.
C18_AsStated ==
    (/\ zpotrf.pc = "returned" /\ zpotrf.ret = 0
     /\ zpotrf.uplo \in {"MagmaUpper", "MagmaLower"}
     /\ zpotrf.n > 0 /\ zpotrf.ldda >= Max(1, zpotrf.n))
    => /\ \A k \in 1 .. zpotrf.batchCount :
             zpotrf.info_array[k] = 0 => zpotrf.panels = Panels(zpotrf.n, zpotrf.nb)
       /\ zpotrf.panels # {}

(***************************************************************************)
(* Claims about the protected kernels together (under SpecKernels).        *)
(***************************************************************************)
\* every operation dsyrkFT has issued so far: completed or still in a stream
SyrkIssued ==
    {<<syrk.done[x].op, syrk.done[x].call>> : x \in DOMAIN syrk.done}
    \cup UNION {{<<syrk.streams[q][x].op, syrk.streams[q][x].call>> :
                    x \in DOMAIN syrk.streams[q]} : q \in 1 .. 4}

\* C21: with FT = false, whatever the other flags, a protected kernel issues
\* one operation, the main kernel, and leaves the checksums and the buffers
\* of the recomputation as they were (abft_dgemm: no check, nothing on
\* stream2; dtrsmFT: checksumB, chk1, chk2; dsyrkFT: checksumC, chk1, chk2).
C21_OnlyMainKernel ==
    /\ (gemm.pc = "returned" /\ ~gemm.FT)
       => /\ gemm.issued = <<MainGemm>>
          /\ gemm.stream2 = <<>>
          /\ \A x \in DOMAIN gemm.done : gemm.done[x].op = MainGemm
          /\ gemm.dC_colchk = ColChkEnc(gemm.C0, gemm.lddc, gemm.m, gemm.n, gemm.nb, gemm.lddc_colchk)
          /\ gemm.dC_rowchk = RowChkEnc(gemm.C0, gemm.lddc, gemm.m, gemm.n, gemm.nb, gemm.lddc_rowchk)
    /\ (trsm.pc = "done" /\ ~trsm.FT)
       => /\ trsm.ops = <<"dtrsm">>
          /\ trsm.checksumB = trsm.checksum0
          /\ \A k \in DOMAIN trsm.chk1 : trsm.chk1[k] = 0 /\ trsm.chk2[k] = 0
    /\ (syrk.pc # "idle" /\ ~syrk.FT)
       => /\ SyrkIssued \subseteq {<<"dgemm", c>> : c \in 1 .. syrk.call}
          /\ syrk.pc = "returned" => <<"dgemm", syrk.call>> \in SyrkIssued
          /\ syrk.checksumC = RecalcChk(syrk.C0, syrk.ldc, syrk.n, syrk.checksumC_ld)
          /\ \A k \in DOMAIN syrk.chk1 : syrk.chk1[k] = 0 /\ syrk.chk2[k] = 0

C21_Witness ==
    /\ gemm.pc = "returned" /\ ~gemm.FT /\ gemm.CHECK_BEFORE /\ gemm.CHECK_AFTER
    /\ gemm.stream1 = <<>>
    /\ gemm.done # <<>>
    /\ gemm.dC # gemm.C0

\* a check, as abft_dgemm names it
Chk(when, on, kind) == [op |-> "check", when |-> when, on |-> on, kind |-> kind]

\* the order of enqueue claim C22 states, written out
C22_Order ==
    (IF gemm.CHECK_BEFORE
     THEN << Chk("before", "A", IF gemm.transA = "NoTrans" THEN "col" ELSE "row"),
             Chk("before", "B", IF gemm.transB = "NoTrans" THEN "row" ELSE "col"),
             Chk("before", "C", "col"),
             Chk("before", "C", "row") >>
     ELSE <<>>)
    \o << [op |-> "dgemm", when |-> "main", on |-> "C", kind |-> "data"],
          [op |-> "dgemm", when |-> "main", on |-> "C", kind |-> "col"],
          [op |-> "dgemm", when |-> "main", on |-> "C", kind |-> "row"] >>
    \o (IF gemm.CHECK_AFTER
        THEN << Chk("after", "C", "col"), Chk("after", "C", "row") >>
        ELSE <<>>)

\* C22: with FT = true abft_dgemm enqueues: under CHECK_BEFORE the check of
\* A (column checksums if transA is NoTrans, else row), of B (row if transB
\* is NoTrans, else column), the column and the row check of C; the main
\* GEMM; the two checksum GEMMs; under CHECK_AFTER the column and the row
\* check of C.  Every check before runs before the main GEMM, and A and B
\* are never checked after it.
C22_EnqueueOrder ==
    (gemm.pc = "returned" /\ gemm.FT)
    => /\ gemm.issued = C22_Order
       /\ \A x \in DOMAIN gemm.done :
             /\ gemm.done[x].op = MainGemm
                => \A y \in DOMAIN gemm.issued :
                      gemm.issued[y].when = "before"
                      => gemm.issued[y] \in gemm.done[x].seen
             /\ (gemm.done[x].op.op = "check" /\ gemm.done[x].op.on \in {"A", "B"})
                => MainGemm \notin gemm.done[x].seen

C22_Witness ==
    /\ gemm.pc = "returned" /\ gemm.FT /\ gemm.CHECK_BEFORE /\ gemm.CHECK_AFTER
    /\ gemm.transA = "Trans" /\ gemm.transB = "ConjTrans"
    /\ gemm.stream1 = <<>> /\ gemm.stream2 = <<>>
    /\ Len(gemm.done) = 9

\* C23: with FT and CHECK_BEFORE, a checksum GEMM of stream2 runs only when
\* every check before the main GEMM (and its correction) has completed on
\* stream1.
C23_AsStated ==
    (gemm.pc = "returned" /\ gemm.FT /\ gemm.CHECK_BEFORE)
    => \A x \in DOMAIN gemm.done :
          gemm.done[x].op \in {ChecksumGemms[1], ChecksumGemms[2]}
          => \A y \in DOMAIN gemm.issued :
                gemm.issued[y].when = "before"
                => gemm.issued[y] \in gemm.done[x].seen

\* C24: the corrector writes only inside the checked block: whatever the
\* stored and the recomputed checksums are, the row it computes,
\* round(d2 / d1) - 1, satisfies 0 <= row < number of rows of the block.
C24_AsStated ==
    \A w \in ec.writes : 0 <= w.row /\ w.row < ec.n

(***************************************************************************)
(* dpotrfFT on a matrix stored with lda > n, and on a matrix that is not   *)
(* positive definite.                                                      *)
(***************************************************************************)
\* the n x n matrix M (stored with ld n) stored with leading dimension lda;
\* the rows n .. lda-1 of a column are padding
Layout(M, n, lda) ==
    [a \in 0 .. lda * n - 1 |->
        IF a % lda < n THEN M[(a % lda) + (a \div lda) * n] ELSE 0]

\* L * L^T with the diagonal entry j lowered to the sum of the squares left
\* of it in row j of L: the factorization stops at column j (info = j + 1)
NotPositiveDefinite(L, n, j) ==
    [Gram(L, n) EXCEPT ![j + j * n] =
        SumTo([k \in 0 .. j - 1 |-> L[j + k * n] * L[j + k * n]], j)]

\* the caller's state at the call dpotrfFT(A, lda, n, info, chksum, 2, ..)
PotrfInitLd(M, L, lda, ft) ==
    [PotrfInit(L, ft) EXCEPT
        !.lda = lda,
        !.A = Layout(M, PotrfN, lda),
        !.chksum = Encode(Layout(M, PotrfN, lda), lda, PotrfN),
        !.chksum0 = Encode(Layout(M, PotrfN, lda), lda, PotrfN)]

\* the factors with unit diagonal
UnitFactors(n) == {L \in Factors(n) : \A i \in 0 .. n - 1 : L[i + i * n] = 1}

InitPotrfLd ==
    /\ potrf \in
          {PotrfInitLd(Gram(L, PotrfN), L, lda, ft) :
              L \in UnitFactors(PotrfN), lda \in {PotrfN, PotrfN + 1}, ft \in BOOLEAN}
          \cup {PotrfInitLd(NotPositiveDefinite(L, PotrfN, j), L, PotrfN, ft) :
                  L \in UnitFactors(PotrfN), j \in 0 .. PotrfN - 1, ft \in BOOLEAN}
    /\ ec = [pc |-> "idle"]
    /\ trsm = [pc |-> "idle"]
    /\ syrk = [pc |-> "idle"]
    /\ gemm = [pc |-> "idle"]
    /\ posv = [pc |-> "idle"]
    /\ zpotrf = [pc |-> "idle"]
    /\ zgesv = [pc |-> "idle"]
    /\ spotrf_m = [pc |-> "idle"]
    /\ eig = [pc |-> "idle"]

SpecPotrfLd == InitPotrfLd /\ [][NextPotrf]_vars

\* the input is L * L^T for the factor L the state records
PotrfPositiveDefinite ==
    potrf.chksum0 = Encode(Layout(Gram(potrf.L, potrf.n), potrf.n, potrf.lda),
                           potrf.lda, potrf.n)

\* C25: dpotrfFT addresses the matrix with lda for every lda >= n: once the
\* factorization has run on L * L^T the factor is found at A[i + j*lda],
\* i >= j, and when the update loops are over the checksums are those of the
\* factor.
C25_AsStated ==
    (potrf.pc \notin {"idle", "factor"} /\ PotrfPositiveDefinite)
    => /\ potrf.pc \in {"recalc", "update1", "update2", "detect"}
          => \A j \in 0 .. potrf.n - 1 : \A i \in j .. potrf.n - 1 :
                potrf.A[i + j * potrf.lda] = potrf.L[i + j * potrf.n]
       /\ potrf.pc = "detect"
          => \A j \in 0 .. potrf.n - 1 : \A t \in {0, 1} :
                potrf.chksum[j * potrf.chksum_ld + t]
                   = SumTo([i \in 0 .. potrf.n - 1 |->
                               Weight(t, i) * potrf.L[i + j * potrf.n]], potrf.n)

\* C26: when the factorization reports failure (info # 0), chksum is left as
\* it was, nothing is divided by a diagonal element, and no detection or
\* correction is run on A.
C26_AsStated ==
    (potrf.pc \notin {"idle", "factor"} /\ potrf.info # 0)
    => /\ potrf.chksum = potrf.chksum0
       /\ potrf.upd = <<>>
       /\ potrf.pc \notin {"update1", "update2", "detect"}

(***************************************************************************)
(* abft_dgemm on a matrix whose sides are not multiples of nb.             *)
(***************************************************************************)
\* the caller's state at the call with C of m x n, k = nb
GemmInitDims(m, n, transA, transB, s, ft, before, after) ==
    LET nb == GemmNb
        k  == GemmNb
        ar == MemRow(transA, m, k)
        ac == MemCol(transA, m, k)
        br == MemRow(transB, k, n)
        bc == MemCol(transB, k, n)
        A  == GemmOperand(s, s + 1, 3, ar, ac, ar)
        B  == GemmOperand(s, s + 2, 2, br, bc, br)
        C  == MatrixMem(s, m, n, m)
    IN  [GemmInit(transA, transB, 2, 1, s, ft, before, after) EXCEPT
            !.m = m, !.n = n, !.k = k,
            !.dA = A, !.ldda = ar, !.dB = B, !.lddb = br, !.dC = C, !.lddc = m,
            !.dA_colchk = ColChkEnc(A, ar, ar, ac, nb, (ar \div nb) * 2),
            !.ldda_colchk = (ar \div nb) * 2,
            !.dA_rowchk = RowChkEnc(A, ar, ar, ac, nb, ar), !.ldda_rowchk = ar,
            !.dB_colchk = ColChkEnc(B, br, br, bc, nb, (br \div nb) * 2),
            !.lddb_colchk = (br \div nb) * 2,
            !.dB_rowchk = RowChkEnc(B, br, br, bc, nb, br), !.lddb_rowchk = br,
            !.dC_colchk = ColChkEnc(C, m, m, n, nb, (m \div nb) * 2),
            !.lddc_colchk = (m \div nb) * 2,
            !.dC_rowchk = RowChkEnc(C, m, m, n, nb, m), !.lddc_rowchk = m,
            !.A0 = A, !.B0 = B, !.C0 = C]

\* the sizes of C: both sides multiples of nb, m with a trailing row, n with
\* a trailing column
GemmDims ==
    {<<GemmNb * GemmBlocks, GemmNb>>,
     <<GemmNb * GemmBlocks + 1, GemmNb>>,
     <<GemmNb * GemmBlocks, GemmNb + 1>>}

InitGemmDims ==
    /\ gemm \in {GemmInitDims(d[1], d[2], ta, tb, s, ft, before, after) :
                    d \in GemmDims, ta \in Trans, tb \in Trans, s \in 0 .. MaxSeed,
                    ft \in BOOLEAN, before \in BOOLEAN, after \in BOOLEAN}
    /\ ec = [pc |-> "idle"]
    /\ potrf = [pc |-> "idle"]
    /\ trsm = [pc |-> "idle"]
    /\ syrk = [pc |-> "idle"]
    /\ posv = [pc |-> "idle"]
    /\ zpotrf = [pc |-> "idle"]
    /\ zgesv = [pc |-> "idle"]
    /\ spotrf_m = [pc |-> "idle"]
    /\ eig = [pc |-> "idle"]

SpecGemmDims == InitGemmDims /\ [][NextGemm]_vars

\* the number of rows of dC_colchk the first checksum GEMM writes, and the
\* number of columns of dC_rowchk the second writes
ColChkRowsWritten(g) == (g.m \div g.nb) * 2
RowChkColsWritten(g) == (g.n \div g.nb) * 2

\* C27: for every m, n and nb, when the two checksum GEMMs have run, every
\* row of C lies in a block of nb rows whose two column-checksum rows were
\* written, and every column in a block of nb columns whose two
\* row-checksum columns were written.
C27_AsStated ==
    (gemm.pc = "returned" /\ gemm.FT
        /\ {ChecksumGemms[1], ChecksumGemms[2]} \subseteq GemmDone)
    => /\ \A i \in 0 .. gemm.m - 1 :
             2 * (i \div gemm.nb) + 1 < ColChkRowsWritten(gemm)
       /\ \A j \in 0 .. gemm.n - 1 :
             2 * (j \div gemm.nb) + 1 < RowChkColsWritten(gemm)

(***************************************************************************)
(* magma_zgesv: the resources of the GPU path and the CPU fallback.        *)
(***************************************************************************)
\* n, nrhs, lda, ldb are drawn from -1 .. ZgesvMax
ZgesvMax == 2

\* the state at the call; ngpu is what magma_num_gpus() returns, okA / okB
\* whether the magma_zmalloc of dA / dB succeeds, getrf what
\* magma_zgetrf_gpu leaves in *info, cpu what magma_zgetrf leaves in *info
ZgesvInit(n, nrhs, lda, ldb, ngpu, okA, okB, getrf, cpu) ==
    [n |-> n, nrhs |-> nrhs, lda |-> lda, ldb |-> ldb,
     ngpu |-> ngpu, okA |-> okA, okB |-> okB, getrf |-> getrf, cpu |-> cpu,
     info |-> 0,
     held |-> {},
     acquired |-> [r \in {"dA", "dB", "queue"} |-> 0],
     released |-> [r \in {"dA", "dB", "queue"} |-> 0],
     badfree |-> FALSE,
     calls |-> <<>>,
     pc |-> "entry"]

\* magma_zmalloc succeeded / magma_queue_create
ZgesvAcquire(z, r) ==
    [z EXCEPT !.held = @ \cup {r}, !.acquired[r] = @ + 1]

\* magma_free / magma_queue_destroy
ZgesvRelease(z, r) ==
    [z EXCEPT !.held = @ \ {r}, !.released[r] = @ + 1,
              !.badfree = @ \/ r \notin z.held]

\* the test of the arguments
ZgesvArgInfo(z) ==
    IF z.n < 0 THEN -1
    ELSE IF z.nrhs < 0 THEN -2
    ELSE IF z.lda < Max(1, z.n) THEN -4
    ELSE IF z.ldb < Max(1, z.n) THEN -7
    ELSE 0

\* the test of the arguments and the quick return
ZgesvCheck ==
    /\ zgesv.pc = "entry"
    /\ zgesv' = [zgesv EXCEPT
          !.info = ZgesvArgInfo(zgesv),
          !.calls = IF ZgesvArgInfo(zgesv) # 0 THEN <<"magma_xerbla">> ELSE <<>>,
          !.pc = IF ZgesvArgInfo(zgesv) # 0 \/ zgesv.n = 0 \/ zgesv.nrhs = 0
                 THEN "returned" ELSE "alloc"]

\* the allocation with the free of dA left out when dB cannot be allocated
ZgesvAllocLeak ==
    /\ zgesv.pc = "alloc"
    /\ zgesv' =
          IF zgesv.ngpu > 1 THEN [zgesv EXCEPT !.pc = "cpu"]
          ELSE IF ~zgesv.okA THEN [zgesv EXCEPT !.pc = "cpu"]
          ELSE IF ~zgesv.okB
               THEN [ZgesvAcquire(zgesv, "dA") EXCEPT !.pc = "cpu"]
               ELSE [ZgesvAcquire(ZgesvAcquire(zgesv, "dA"), "dB") EXCEPT !.pc = "gpu"]

\* ngpu = magma_num_gpus() and the two magma_zmalloc
ZgesvAlloc ==
    /\ zgesv.pc = "alloc"
    /\ zgesv' =
          IF zgesv.ngpu > 1 THEN [zgesv EXCEPT !.pc = "cpu"]
          ELSE IF ~zgesv.okA THEN [zgesv EXCEPT !.pc = "cpu"]
          ELSE IF ~zgesv.okB
               THEN [ZgesvRelease(ZgesvAcquire(zgesv, "dA"), "dA") EXCEPT !.pc = "cpu"]
               ELSE [ZgesvAcquire(ZgesvAcquire(zgesv, "dA"), "dB") EXCEPT !.pc = "gpu"]

\* magma_queue_create, magma_zsetmatrix, magma_zgetrf_gpu; on
\* MAGMA_ERR_DEVICE_ALLOC everything is released and the CPU path taken
ZgesvFactor ==
    /\ zgesv.pc = "gpu"
    /\ LET q == [ZgesvAcquire(zgesv, "queue") EXCEPT
                    !.info = zgesv.getrf,
                    !.calls = @ \o <<"magma_zgetrf_gpu">>]
       IN  zgesv' =
              IF zgesv.getrf = MAGMA_ERR_DEVICE_ALLOC
              THEN [ZgesvRelease(ZgesvRelease(ZgesvRelease(q, "queue"), "dA"), "dB")
                       EXCEPT !.pc = "cpu"]
              ELSE [q EXCEPT !.pc = "solve"]

\* magma_zgetmatrix; if *info == 0 the solve; the releases and the return
ZgesvSolve ==
    /\ zgesv.pc = "solve"
    /\ LET q == [zgesv EXCEPT
                    !.calls = IF zgesv.info = 0 THEN @ \o <<"magma_zgetrs_gpu">> ELSE @]
       IN  zgesv' = [ZgesvRelease(ZgesvRelease(ZgesvRelease(q, "queue"), "dA"), "dB")
                        EXCEPT !.pc = "returned"]

\* CPU_INTERFACE: magma_zgetrf, if *info == 0 lapackf77_zgetrs, return
ZgesvCpu ==
    /\ zgesv.pc = "cpu"
    /\ zgesv' = [zgesv EXCEPT
          !.info = zgesv.cpu,
          !.calls = @ \o <<"magma_zgetrf">>
                      \o (IF zgesv.cpu = 0 THEN <<"lapackf77_zgetrs">> ELSE <<>>),
          !.pc = "returned"]

InitZgesv ==
    /\ zgesv \in {ZgesvInit(n, nrhs, lda, ldb, ngpu, okA, okB, getrf, cpu) :
                     n \in -1 .. ZgesvMax, nrhs \in -1 .. ZgesvMax,
                     lda \in 0 .. ZgesvMax, ldb \in 0 .. ZgesvMax,
                     ngpu \in {1, 2}, okA \in BOOLEAN, okB \in BOOLEAN,
                     getrf \in {0, 1, MAGMA_ERR_DEVICE_ALLOC}, cpu \in {0, 1}}
    /\ ec = [pc |-> "idle"]
    /\ potrf = [pc |-> "idle"]
    /\ trsm = [pc |-> "idle"]
    /\ syrk = [pc |-> "idle"]
    /\ gemm = [pc |-> "idle"]
    /\ posv = [pc |-> "idle"]
    /\ zpotrf = [pc |-> "idle"]
    /\ spotrf_m = [pc |-> "idle"]
    /\ eig = [pc |-> "idle"]

NextZgesv ==
    \/ /\ ZgesvCheck
       /\ UNCHANGED <<ec, potrf, trsm, syrk, gemm, posv, zpotrf, spotrf_m, eig>>
    \/ /\ ZgesvAlloc
       /\ UNCHANGED <<ec, potrf, trsm, syrk, gemm, posv, zpotrf, spotrf_m, eig>>
    \/ /\ ZgesvFactor
       /\ UNCHANGED <<ec, potrf, trsm, syrk, gemm, posv, zpotrf, spotrf_m, eig>>
    \/ /\ ZgesvSolve
       /\ UNCHANGED <<ec, potrf, trsm, syrk, gemm, posv, zpotrf, spotrf_m, eig>>
    \/ /\ ZgesvCpu
       /\ UNCHANGED <<ec, potrf, trsm, syrk, gemm, posv, zpotrf, spotrf_m, eig>>

SpecZgesv == InitZgesv /\ [][NextZgesv]_vars

\* C28: on every return path of magma_zgesv dA, dB and the queue have each
\* been released exactly as often as acquired, at most once, and nothing was
\* released that was not held; the CPU routines run exactly when ngpu > 1,
\* an allocation failed, or magma_zgetrf_gpu reported MAGMA_ERR_DEVICE_ALLOC.
C28_ReleasesWhatItAcquires ==
    zgesv.pc = "returned"
    => /\ zgesv.held = {}
       /\ ~zgesv.badfree
       /\ \A r \in {"dA", "dB", "queue"} :
             zgesv.released[r] = zgesv.acquired[r] /\ zgesv.acquired[r] <= 1
       /\ (ZgesvArgInfo(zgesv) = 0 /\ zgesv.n # 0 /\ zgesv.nrhs # 0)
          => ((\E x \in DOMAIN zgesv.calls : zgesv.calls[x] = "magma_zgetrf")
              <=> \/ zgesv.ngpu > 1
                  \/ ~zgesv.okA
                  \/ ~zgesv.okB
                  \/ zgesv.getrf = MAGMA_ERR_DEVICE_ALLOC)

C28_Witness ==
    /\ zgesv.pc = "returned"
    /\ zgesv.acquired = [r \in {"dA", "dB", "queue"} |-> 1]
    /\ zgesv.calls = <<"magma_zgetrf_gpu", "magma_zgetrf", "lapackf77_zgetrs">>

(***************************************************************************)
(* magma_spotrf_m: the per-device buffers, queues and events.              *)
(***************************************************************************)
\* the number of GPUs asked for is drawn from 1 .. SpotrfGpus
SpotrfGpus == 2
\* n is drawn from -1 .. SpotrfMaxN
SpotrfMaxN == 4

\* ngpu as the routine sets it from ngpu0 and the rows left:
\*   if (ngpu0 > rows/nb) { ngpu = rows/nb; if (rows%nb != 0) ngpu++; }
\*   else ngpu = ngpu0;
SpotrfNgpu(ngpu0, rows, nb) ==
    IF ngpu0 > rows \div nb
    THEN (rows \div nb) + (IF rows % nb # 0 THEN 1 ELSE 0)
    ELSE ngpu0

\* what the routine holds on device d: dt[d], queues[d][0..2], event[d][0..4]
SpotrfOnDevice(d) == {<<"dt", d>>, <<"queues", d>>, <<"event", d>>}

\* the state at the call; nb is what magma_get_dpotrf_nb(n) returns, NB the
\* width of the big panel that fits the free memory, dev the current
\* device, failAt the device whose magma_smalloc fails (SpotrfGpus: none),
\* iinfo what the factorization of a big panel reports
SpotrfInit(ngpu0, uplo, n, lda, nb, NB, dev, failAt, iinfo) ==
    [ngpu0 |-> ngpu0, uplo |-> uplo, n |-> n, lda |-> lda, nb |-> nb, NB |-> NB,
     failAt |-> failAt, iinfo |-> iinfo,
     dev |-> dev, entry_dev |-> dev, orig_dev |-> -1,
     ngpu |-> ngpu0, d |-> 0, J |-> 0,
     held |-> {}, badfree |-> FALSE,
     info |-> 0, pc |-> "entry"]

SpotrfArgInfo(z) ==
    IF z.uplo \notin {"MagmaUpper", "MagmaLower"} THEN -1
    ELSE IF z.n < 0 THEN -2
    ELSE IF z.lda < Max(1, z.n) THEN -4
    ELSE 0

\* the test of the arguments, the quick return, magma_getdevice(&orig_dev)
\* and the number of GPUs used
SpotrfCheck ==
    /\ spotrf_m.pc = "entry"
    /\ spotrf_m' =
          IF SpotrfArgInfo(spotrf_m) # 0 \/ spotrf_m.n = 0
          THEN [spotrf_m EXCEPT !.info = SpotrfArgInfo(spotrf_m), !.pc = "returned"]
          ELSE [spotrf_m EXCEPT
                   !.orig_dev = spotrf_m.dev,
                   !.ngpu = SpotrfNgpu(spotrf_m.ngpu0, spotrf_m.n, spotrf_m.nb),
                   !.d = 0,
                   !.pc = "alloc"]

\* one iteration of the allocation loop: magma_setdevice(d), magma_smalloc
\* of dt[d] (on failure *info = MAGMA_ERR_DEVICE_ALLOC; return *info), the
\* three queues and the five events
SpotrfAlloc ==
    /\ spotrf_m.pc = "alloc"
    /\ spotrf_m.d < spotrf_m.ngpu
    /\ spotrf_m' =
          IF spotrf_m.failAt = spotrf_m.d
          THEN [spotrf_m EXCEPT !.dev = spotrf_m.d,
                                !.info = MAGMA_ERR_DEVICE_ALLOC,
                                !.pc = "returned"]
          ELSE [spotrf_m EXCEPT !.dev = spotrf_m.d,
                                !.held = @ \cup SpotrfOnDevice(spotrf_m.d),
                                !.d = @ + 1]

\* the end of the allocation loop: magma_setdevice(0)
SpotrfAllocEnd ==
    /\ spotrf_m.pc = "alloc"
    /\ spotrf_m.d = spotrf_m.ngpu
    /\ spotrf_m' = [spotrf_m EXCEPT !.dev = 0, !.J = 0, !.pc = "factor"]

\* nb <= 1 or nb >= n: lapackf77_spotrf; else one big panel of the hybrid
\* code: ngpu for the rows left, the factorization of the panel, and on
\* iinfo != 0  *info = J + iinfo; break
SpotrfPanel ==
    /\ spotrf_m.pc = "factor"
    /\ spotrf_m' =
          IF spotrf_m.nb <= 1 \/ spotrf_m.nb >= spotrf_m.n
          THEN [spotrf_m EXCEPT !.info = spotrf_m.iinfo, !.pc = "cleanup"]
          ELSE IF spotrf_m.J >= spotrf_m.n
          THEN [spotrf_m EXCEPT !.pc = "cleanup"]
          ELSE IF spotrf_m.iinfo # 0
          THEN [spotrf_m EXCEPT
                   !.ngpu = SpotrfNgpu(spotrf_m.ngpu0, spotrf_m.n - spotrf_m.J, spotrf_m.nb),
                   !.info = spotrf_m.J + spotrf_m.iinfo,
                   !.pc = "cleanup"]
          ELSE [spotrf_m EXCEPT
                   !.ngpu = SpotrfNgpu(spotrf_m.ngpu0, spotrf_m.n - spotrf_m.J, spotrf_m.nb),
                   !.J = @ + spotrf_m.NB]

\* the devices the final loop visits
SpotrfCleanupDevices(z) == 0 .. SpotrfNgpu(z.ngpu0, z.n, z.nb) - 1

\* ngpu is set again from n; on each device the queues are destroyed, dt[d]
\* is freed, the events are destroyed; magma_setdevice(orig_dev); return
SpotrfCleanup ==
    /\ spotrf_m.pc = "cleanup"
    /\ LET gone == UNION {SpotrfOnDevice(d) : d \in SpotrfCleanupDevices(spotrf_m)} IN
       spotrf_m' = [spotrf_m EXCEPT
          !.ngpu = SpotrfNgpu(spotrf_m.ngpu0, spotrf_m.n, spotrf_m.nb),
          !.badfree = @ \/ ~(gone \subseteq spotrf_m.held),
          !.held = @ \ gone,
          !.dev = spotrf_m.orig_dev,
          !.pc = "returned"]

InitSpotrf ==
    /\ spotrf_m \in {SpotrfInit(ngpu0, uplo, n, lda, nb, NB, dev, failAt, iinfo) :
                        ngpu0 \in 1 .. SpotrfGpus, uplo \in PosvUplos,
                        n \in -1 .. SpotrfMaxN, lda \in {1, SpotrfMaxN},
                        nb \in {1, 2}, NB \in {2, SpotrfMaxN},
                        dev \in 0 .. SpotrfGpus - 1,
                        failAt \in 0 .. SpotrfGpus, iinfo \in {0, 1}}
    /\ ec = [pc |-> "idle"]
    /\ potrf = [pc |-> "idle"]
    /\ trsm = [pc |-> "idle"]
    /\ syrk = [pc |-> "idle"]
    /\ gemm = [pc |-> "idle"]
    /\ posv = [pc |-> "idle"]
    /\ zpotrf = [pc |-> "idle"]
    /\ zgesv = [pc |-> "idle"]
    /\ eig = [pc |-> "idle"]

NextSpotrf ==
    \/ /\ SpotrfCheck
       /\ UNCHANGED <<ec, potrf, trsm, syrk, gemm, posv, zpotrf, zgesv, eig>>
    \/ /\ SpotrfAlloc
       /\ UNCHANGED <<ec, potrf, trsm, syrk, gemm, posv, zpotrf, zgesv, eig>>
    \/ /\ SpotrfAllocEnd
       /\ UNCHANGED <<ec, potrf, trsm, syrk, gemm, posv, zpotrf, zgesv, eig>>
    \/ /\ SpotrfPanel
       /\ UNCHANGED <<ec, potrf, trsm, syrk, gemm, posv, zpotrf, zgesv, eig>>
    \/ /\ SpotrfCleanup
       /\ UNCHANGED <<ec, potrf, trsm, syrk, gemm, posv, zpotrf, zgesv, eig>>

SpecSpotrf == InitSpotrf /\ [][NextSpotrf]_vars

\* C29: on every return path of magma_spotrf_m (arguments, n = 0, a failed
\* magma_smalloc at any device, iinfo != 0, success) every dt[d], queue and
\* event created has been released, and the current device is the one of
\* the call.
C29_AsStated ==
    spotrf_m.pc = "returned"
    => /\ spotrf_m.held = {}
       /\ ~spotrf_m.badfree
       /\ spotrf_m.dev = spotrf_m.entry_dev

(***************************************************************************)
(* magma_smove_eig: the selected eigenvalues moved to the front of w.      *)
(***************************************************************************)
\* n is drawn from 0 .. EigMaxN, the eigenvalues, vl and vu from 0 .. EigMaxVal
EigMaxN == 3
EigMaxVal == 3

EigRanges == {"MagmaRangeAll", "MagmaRangeV", "MagmaRangeI"}

RECURSIVE EigCopy(_, _, _, _)
\* for (i = 0; i < *mout; ++i) w[i] = w[*il - 1 + i];  from iteration i on
EigCopy(w, il, mout, i) ==
    IF i >= mout THEN w
    ELSE EigCopy([w EXCEPT ![i] = w[il - 1 + i]], il, mout, i + 1)

RECURSIVE EigScanNoMove(_, _, _, _, _, _, _)
\* the loop of the value range without the move of the eigenvalue kept
EigScanNoMove(w, n, vl, vu, i, il, iu) ==
    IF i >= n THEN [w |-> w, il |-> il, iu |-> iu]
    ELSE IF w[i] > vu THEN [w |-> w, il |-> il, iu |-> i]
    ELSE IF w[i] < vl THEN EigScanNoMove(w, n, vl, vu, i + 1, il + 1, iu)
    ELSE EigScanNoMove(w, n, vl, vu, i + 1, il, iu)

RECURSIVE EigScan(_, _, _, _, _, _, _)
\* the loop of the value range, from iteration i on:
\*   if (w[i] > vu) { *iu = i; break; }
\*   else if (w[i] < vl) ++*il;
\*   else if (*il > 1) w[i-*il+1] = w[i];
EigScan(w, n, vl, vu, i, il, iu) ==
    IF i >= n THEN [w |-> w, il |-> il, iu |-> iu]
    ELSE IF w[i] > vu THEN [w |-> w, il |-> il, iu |-> i]
    ELSE IF w[i] < vl THEN EigScan(w, n, vl, vu, i + 1, il + 1, iu)
    ELSE IF il > 1
         THEN EigScan([w EXCEPT ![i - il + 1] = w[i]], n, vl, vu, i + 1, il, iu)
         ELSE EigScan(w, n, vl, vu, i + 1, il, iu)

\* the state at the call: w[0..n) sorted ascending
EigInit(range, w, il, iu, vl, vu) ==
    [range |-> range, n |-> Cardinality(DOMAIN w), w |-> w, il |-> il, iu |-> iu,
     vl |-> vl, vu |-> vu, mout |-> 0,
     w0 |-> w, il0 |-> il, iu0 |-> iu,
     pc |-> "entry"]

\* magma_smove_eig(range, n, w, &il, &iu, vl, vu, &mout)
magma_smove_eig ==
    /\ eig.pc = "entry"
    /\ eig' =
          IF eig.range = "MagmaRangeI"
          THEN LET mout == eig.iu - eig.il + 1 IN
               [eig EXCEPT !.mout = mout,
                           !.w = IF eig.il > 1 THEN EigCopy(eig.w, eig.il, mout, 0) ELSE @,
                           !.pc = "done"]
          ELSE IF eig.range = "MagmaRangeV"
          THEN LET r == EigScan(eig.w, eig.n, eig.vl, eig.vu, 0, 1, eig.n) IN
               [eig EXCEPT !.w = r.w, !.il = r.il, !.iu = r.iu,
                           !.mout = r.iu - r.il + 1,
                           !.pc = "done"]
          ELSE [eig EXCEPT !.il = 1, !.iu = eig.n, !.mout = eig.n, !.pc = "done"]

\* the eigenvalue arrays: n values in ascending order
EigSorted(n) ==
    {w \in [0 .. n - 1 -> 0 .. EigMaxVal] :
        \A i \in 0 .. n - 2 : w[i] <= w[i + 1]}

InitEig ==
    /\ eig \in {EigInit(t[1], t[2], t[3][1], t[3][2], vl, vu) :
                   t \in UNION {
                       { <<range, w, p>> :
                           range \in EigRanges, w \in EigSorted(n),
                           p \in {q \in (1 .. n) \X (1 .. n) : q[1] <= q[2]} }
                       \cup { <<range, w, <<1, 0>> >> :
                                range \in EigRanges \ {"MagmaRangeI"}, w \in EigSorted(n) }
                       : n \in 0 .. EigMaxN },
                   vl \in 0 .. EigMaxVal, vu \in 0 .. EigMaxVal}
    /\ ec = [pc |-> "idle"]
    /\ potrf = [pc |-> "idle"]
    /\ trsm = [pc |-> "idle"]
    /\ syrk = [pc |-> "idle"]
    /\ gemm = [pc |-> "idle"]
    /\ posv = [pc |-> "idle"]
    /\ zpotrf = [pc |-> "idle"]
    /\ zgesv = [pc |-> "idle"]
    /\ spotrf_m = [pc |-> "idle"]

NextEig ==
    /\ magma_smove_eig
    /\ UNCHANGED <<ec, potrf, trsm, syrk, gemm, posv, zpotrf, zgesv, spotrf_m>>

SpecEig == InitEig /\ [][NextEig]_vars

\* the indices (0-based) of the eigenvalues of the input inside [vl, vu]
EigInRange == {i \in 0 .. eig.n - 1 : eig.vl <= eig.w0[i] /\ eig.w0[i] <= eig.vu}

====
